---- MODULE Spec2Model ----
(***************************************************************************)
(* Currency normalisation and reporting engine of facturme: the rate       *)
(* store (table exchange_rates), the refresher (UpdateAllRates and its two *)
(* callers in main), the conversion engine (GetExchangeRate and            *)
(* ConvertAmount) and the three aggregation passes.                        *)
(***************************************************************************)
EXTENDS Integers, Sequences, FiniteSets, TLC

(***************************************************************************)
(* Bounds of the model.                                                    *)
(***************************************************************************)
\* number of significant bits of a float (float64 has 53)
MantissaBits == 6
\* fractional digits of a stored rate ("%.10f", DECIMAL(20,10) have 10)
RateDigits == 2
\* how many entries of the supported list are modelled
NumSupported == 3
\* last value of the clock that stamps updated_at
MaxTime == 2

(***************************************************************************)
(* float64 arithmetic on non-negative values.  A float is a pair <<n, d>>  *)
(* in lowest terms: d > 0 is the finite value n/d, <<1, 0>> is +Inf and    *)
(* <<0, 0>> is NaN.  Every operation rounds its exact result to            *)
(* MantissaBits significant bits, ties to even.                            *)
(***************************************************************************)
RECURSIVE Gcd(_, _)
Gcd(a, b) == IF b = 0 THEN a ELSE Gcd(b, a % b)

RECURSIVE Pow(_, _)
Pow(b, e) == IF e = 0 THEN 1 ELSE b * Pow(b, e - 1)

Norm(n, d) ==
    IF d = 0 THEN << IF n > 0 THEN 1 ELSE 0, 0 >>
    ELSE IF n = 0 THEN << 0, 1 >>
    ELSE LET g == Gcd(n, d) IN << n \div g, d \div g >>

PosInf == << 1, 0 >>
NaN == << 0, 0 >>
Zero == << 0, 1 >>
One == << 1, 1 >>

IsFinite(x) == x[2] # 0

\* nearest integer to n/d, ties to even
RoundHalfEven(n, d) ==
    LET m == n \div d
        r == n % d
    IN  IF 2 * r > d \/ (2 * r = d /\ m % 2 = 1) THEN m + 1 ELSE m

\* scale n/d by powers of two into [2^(MantissaBits-1), 2^MantissaBits),
\* round the mantissa, scale back
MantissaMin == Pow(2, MantissaBits - 1)
MantissaMax == Pow(2, MantissaBits)

RECURSIVE RoundScaled(_, _, _, _)
RoundScaled(n, d, up, down) ==
    IF n < MantissaMin * d THEN RoundScaled(2 * n, d, 2 * up, down)
    ELSE IF n >= MantissaMax * d THEN RoundScaled(n, 2 * d, up, 2 * down)
    ELSE Norm(RoundHalfEven(n, d) * down, up)

Round(x) ==
    IF x[2] = 0 \/ x[1] = 0 THEN Norm(x[1], x[2])
    ELSE RoundScaled(x[1], x[2], 1, 1)

FMul(x, y) == Round(Norm(x[1] * y[1], x[2] * y[2]))
FDiv(x, y) == Round(Norm(x[1] * y[2], x[2] * y[1]))
FAdd(x, y) ==
    IF x = NaN \/ y = NaN THEN NaN
    ELSE IF x = PosInf \/ y = PosInf THEN PosInf
    ELSE Round(Norm(x[1] * y[2] + y[1] * x[2], x[2] * y[2]))

(***************************************************************************)
(* Currency codes.                                                         *)
(***************************************************************************)
AllSupportedCurrencies ==
    << "USD", "EUR", "GBP", "JPY", "AUD", "CAD", "CHF", "CNY", "SEK", "NZD",
       "IDR", "SGD", "INR" >>

\* mutant: the list goes on with a code outside the 13
SupportedCurrenciesAndMore ==
    SubSeq(AllSupportedCurrencies, 1, NumSupported) \o << "XXX" >>

SupportedCurrencies == SubSeq(AllSupportedCurrencies, 1, NumSupported)

Supported == { SupportedCurrencies[i] : i \in 1..Len(SupportedCurrencies) }

\* a code outside the supported list
Unsupported == "XXX"

Codes == Supported \cup {Unsupported}

(***************************************************************************)
(* The table exchange_rates: a set of rows.  rate is the DECIMAL(20,10)    *)
(* value counted in units of 10^-RateDigits.                               *)
(***************************************************************************)
RateUnit == Pow(10, RateDigits)

\* fmt.Sprintf("%.10f", rate) read into the DECIMAL column
FormatRate(x) == RoundHalfEven(x[1] * RateUnit, x[2])

\* strconv.ParseFloat of the column's text
ParseFloat(r) == Round(Norm(r, RateUnit))

RowsOf(rows, base, target) ==
    { r \in rows : r.base_currency = base /\ r.target_currency = target }

\* mutant: ON CONFLICT DO NOTHING, the stored row stays
UpsertExchangeRateKeep(rows, base, target, rate, t) ==
    IF RowsOf(rows, base, target) # {} THEN rows
    ELSE rows \cup { [base_currency |-> base, target_currency |-> target,
                      rate |-> rate, updated_at |-> t] }

\* mutant: a plain INSERT into a table without the UNIQUE constraint
UpsertExchangeRateInsert(rows, base, target, rate, t) ==
    rows \cup { [base_currency |-> base, target_currency |-> target,
                 rate |-> rate, updated_at |-> t] }

\* mutant: the row of an existing pair ends half way between its old rate
\* and the new one
UpsertExchangeRateTorn(rows, base, target, rate, t) ==
    (rows \ RowsOf(rows, base, target))
        \cup { [base_currency |-> base, target_currency |-> target,
                rate |-> IF RowsOf(rows, base, target) = {} THEN rate
                         ELSE (rate + (CHOOSE r \in RowsOf(rows, base, target) : TRUE).rate) \div 2,
                updated_at |-> t] }

\* INSERT ... ON CONFLICT (base_currency, target_currency) DO UPDATE
UpsertExchangeRate(rows, base, target, rate, t) ==
    (rows \ RowsOf(rows, base, target))
        \cup { [base_currency |-> base, target_currency |-> target,
                rate |-> rate, updated_at |-> t] }

LogNotFound(c) == [line |-> "Exchange rate not found", currency |-> c]
LogFailedToConvert(c) == [line |-> "Failed to convert", currency |-> c]

(***************************************************************************)
(* ExchangeRateService.  up tells whether the database answers the query.  *)
(***************************************************************************)
ErrNotAvailable == "exchange rate not available, please run update job"
ErrQuery == "failed to query exchange rate"

\* mutant: a missing row is answered with rate 1.0
GetExchangeRateGuess(rows, up, baseCurrency, targetCurrency) ==
    IF baseCurrency = targetCurrency
    THEN [rate |-> One, err |-> "nil", queries |-> 0]
    ELSE IF ~up
    THEN [rate |-> Zero, err |-> ErrQuery, queries |-> 1]
    ELSE IF RowsOf(rows, baseCurrency, targetCurrency) = {}
    THEN [rate |-> One, err |-> "nil", queries |-> 1]
    ELSE LET rateRow == CHOOSE r \in RowsOf(rows, baseCurrency, targetCurrency) : TRUE
         IN  [rate |-> ParseFloat(rateRow.rate), err |-> "nil", queries |-> 1]

\* mutant: every failed lookup is reported as a missing rate
GetExchangeRateOneError(rows, up, baseCurrency, targetCurrency) ==
    IF baseCurrency = targetCurrency
    THEN [rate |-> One, err |-> "nil", queries |-> 0]
    ELSE IF ~up \/ RowsOf(rows, baseCurrency, targetCurrency) = {}
    THEN [rate |-> Zero, err |-> ErrNotAvailable, queries |-> 1]
    ELSE LET rateRow == CHOOSE r \in RowsOf(rows, baseCurrency, targetCurrency) : TRUE
         IN  [rate |-> ParseFloat(rateRow.rate), err |-> "nil", queries |-> 1]

GetExchangeRate(rows, up, baseCurrency, targetCurrency) ==
    IF baseCurrency = targetCurrency
    THEN [rate |-> One, err |-> "nil", queries |-> 0]
    ELSE IF ~up
    THEN [rate |-> Zero, err |-> ErrQuery, queries |-> 1]
    ELSE IF RowsOf(rows, baseCurrency, targetCurrency) = {}
    THEN [rate |-> Zero, err |-> ErrNotAvailable, queries |-> 1]
    ELSE LET rateRow == CHOOSE r \in RowsOf(rows, baseCurrency, targetCurrency) : TRUE
         IN  [rate |-> ParseFloat(rateRow.rate), err |-> "nil", queries |-> 1]

\* the conversion without the shortcut for equal codes
ConvertBridge(rows, ups, amount, fromCurrency, toCurrency, swap, mulFirst) ==
    LET rate == GetExchangeRate(rows, ups[1], "USD", toCurrency)
    IN  IF rate.err # "nil"
        THEN [amount |-> Zero, err |-> rate.err, queries |-> rate.queries]
        ELSE LET fromRate == GetExchangeRate(rows, ups[2], "USD", fromCurrency)
                 queries == rate.queries + fromRate.queries
             IN  IF fromRate.err # "nil"
                 THEN [amount |-> Zero, err |-> fromRate.err, queries |-> queries]
                 ELSE [amount |->
                           IF swap THEN FMul(FDiv(amount, rate.rate), fromRate.rate)
                           ELSE IF mulFirst THEN FDiv(FMul(amount, rate.rate), fromRate.rate)
                           ELSE FMul(FDiv(amount, fromRate.rate), rate.rate),
                       err |-> "nil", queries |-> queries]

\* mutant: no shortcut for equal codes
ConvertAmountNoIdentity(rows, ups, amount, fromCurrency, toCurrency) ==
    ConvertBridge(rows, ups, amount, fromCurrency, toCurrency, FALSE, FALSE)

\* mutant: the two rates change places
ConvertAmountSwapped(rows, ups, amount, fromCurrency, toCurrency) ==
    IF fromCurrency = toCurrency
    THEN [amount |-> amount, err |-> "nil", queries |-> 0]
    ELSE ConvertBridge(rows, ups, amount, fromCurrency, toCurrency, TRUE, FALSE)

\* mutant: multiply by the target rate before dividing by the source rate
ConvertAmountMulFirst(rows, ups, amount, fromCurrency, toCurrency) ==
    IF fromCurrency = toCurrency
    THEN [amount |-> amount, err |-> "nil", queries |-> 0]
    ELSE ConvertBridge(rows, ups, amount, fromCurrency, toCurrency, FALSE, TRUE)

\* ups[1], ups[2]: whether the database answers the first, the second lookup
ConvertAmount(rows, ups, amount, fromCurrency, toCurrency) ==
    IF fromCurrency = toCurrency
    THEN [amount |-> amount, err |-> "nil", queries |-> 0]
    ELSE LET rate == GetExchangeRate(rows, ups[1], "USD", toCurrency)
         IN  IF rate.err # "nil"
             THEN [amount |-> Zero, err |-> rate.err, queries |-> rate.queries]
             ELSE LET fromRate == GetExchangeRate(rows, ups[2], "USD", fromCurrency)
                      queries == rate.queries + fromRate.queries
                  IN  IF fromRate.err # "nil"
                      THEN [amount |-> Zero, err |-> fromRate.err, queries |-> queries]
                      ELSE LET usdAmount == FDiv(amount, fromRate.rate)
                               convertedAmount == FMul(usdAmount, rate.rate)
                           IN  [amount |-> convertedAmount, err |-> "nil",
                                queries |-> queries]

\* what the lookups of one ConvertAmount write to the log: GetExchangeRate
\* logs the pair that has no row and nothing when the query fails
ConvertAmountLog(rows, ups, fromCurrency, toCurrency) ==
    IF fromCurrency = toCurrency
    THEN {}
    ELSE LET rate == GetExchangeRate(rows, ups[1], "USD", toCurrency)
             fromRate == GetExchangeRate(rows, ups[2], "USD", fromCurrency)
         IN  IF rate.err = ErrNotAvailable THEN {LogNotFound(toCurrency)}
             ELSE IF rate.err # "nil" THEN {}
             ELSE IF fromRate.err = ErrNotAvailable THEN {LogNotFound(fromCurrency)}
             ELSE {}

(***************************************************************************)
(* State.                                                                  *)
(***************************************************************************)
VARIABLES
    exchange_rates,   \* the rows of table exchange_rates
    now,              \* the database clock, NOW()
    cycles,           \* the two callers of UpdateAllRates and where each stands
    alive,            \* whether the process runs
    user_currency,    \* users.currency of the requesting user, "NULL" when unset
    clients,          \* the user's rows of table clients
    time_entries,     \* the user's rows of table time_entries, in query order
    invoices,         \* the user's rows of table invoices, in query order
    invoice_time_entries, \* the rows <<invoice_id, time_entry_id>> of that table
    request,          \* the HTTP request that is followed and what it meets in
                      \* the database, NoRequest until it arrives
    response,         \* the response to it, NoResponse until the handler has
                      \* written it
    log               \* what the handler of that request wrote to the log about
                      \* its rate lookups

vars ==
    << exchange_rates, now, cycles, alive, user_currency, clients, time_entries,
       invoices, invoice_time_entries, request, response, log >>

httpVars == << request, response, log >>

dataVars ==
    << user_currency, clients, time_entries, invoices, invoice_time_entries >>

(***************************************************************************)
(* The exchange-rate provider.  A response body carries a mapping from     *)
(* currency code to rate; the rates are JSON numbers decoded to float64.   *)
(***************************************************************************)
Rate092 == Round(<< 23, 25 >>)
Rate150 == Round(<< 3, 2 >>)

NonBase == Supported \ {"USD"}
LastSupported == SupportedCurrencies[Len(SupportedCurrencies)]

\* every supported code but the base, and a code the list does not hold
FullRates(r) == [c \in NonBase \cup {Unsupported} |-> r]
\* the base is listed too, the last supported code is missing
PartRates(r) == [c \in Supported \ {LastSupported} |-> r]

ProviderRates == { FullRates(Rate092), FullRates(Zero), PartRates(Rate150) }

(***************************************************************************)
(* The refresher: UpdateAllRates, run by the goroutine started in main     *)
(* ("startup") and by the daily job of the scheduler ("scheduled").        *)
(***************************************************************************)
Cycles == {"startup", "scheduled"}

NoRates == << >>

Idle == [pc |-> "idle", rates |-> NoRates, i |-> 0, updatedCount |-> 0,
         expired |-> FALSE, err |-> "nil"]

\* UpdateAllRates has returned e; updatedCount was logged when e is nil
Returned(c, e) ==
    [pc |-> "returned", rates |-> NoRates, i |-> 0,
     updatedCount |-> IF e = "nil" THEN c.updatedCount ELSE 0,
     expired |-> FALSE, err |-> e]

ErrFetch == "failed to fetch exchange rates"
ErrStatus == "API returned status"
ErrDecode == "failed to decode API response"
ErrUpdate == "failed to update rate"

\* the caller builds the context and calls UpdateAllRates, which sends the
\* request.  The startup goroutine runs once, the daily job again and again,
\* whatever the end of its previous run, for as long as the process lives.
StartCycle(k) ==
    /\ alive
    /\ \/ cycles[k].pc = "idle"
       \/ k = "scheduled" /\ cycles[k].pc \in {"returned", "panicked"}
    /\ cycles' = [cycles EXCEPT ![k] = [Idle EXCEPT !.pc = "fetching"]]
    /\ UNCHANGED << exchange_rates, now, alive, dataVars, httpVars >>

\* the 5-minute deadline of the caller's context passes
Deadline(k) ==
    /\ alive
    /\ cycles[k].pc \in {"fetching", "loop"}
    /\ ~cycles[k].expired
    /\ cycles' = [cycles EXCEPT ![k].expired = TRUE]
    /\ UNCHANGED << exchange_rates, now, alive, dataVars, httpVars >>

\* http.Get fails, the status is not 200, or the body is not JSON
FetchFails(k) ==
    /\ alive
    /\ cycles[k].pc = "fetching"
    /\ \E e \in {ErrFetch, ErrStatus, ErrDecode} :
          cycles' = [cycles EXCEPT ![k] = Returned(@, e)]
    /\ UNCHANGED << exchange_rates, now, alive, dataVars, httpVars >>

\* the body is JSON without a rates mapping: the write to the nil map panics.
\* In the goroutine of main the panic ends the process; the scheduler's
\* treatment of a panicking job is the library's.
FetchNoRates(k) ==
    /\ alive
    /\ cycles[k].pc = "fetching"
    /\ cycles' = [cycles EXCEPT ![k] = [Idle EXCEPT !.pc = "panicked"]]
    /\ \/ alive' = FALSE
       \/ k = "scheduled" /\ alive' = alive
    /\ UNCHANGED << exchange_rates, now, dataVars, httpVars >>

\* mutant: the rates are stored as the provider lists them
InjectBaseNot(rates) == rates

\* the body decodes; the base currency is added with rate 1.0
InjectBase(rates) ==
    [c \in DOMAIN rates \cup {"USD"} |-> IF c = "USD" THEN One ELSE rates[c]]

FetchRates(k) ==
    /\ alive
    /\ cycles[k].pc = "fetching"
    /\ \E rates \in ProviderRates :
          cycles' = [cycles EXCEPT ![k] =
                        [@ EXCEPT !.pc = "loop", !.rates = InjectBase(rates), !.i = 1]]
    /\ UNCHANGED << exchange_rates, now, alive, dataVars, httpVars >>

\* mutant: no test of exists, a code the response lacks reads as rate 0
UpdateRateNoSkip(k) ==
    /\ alive
    /\ cycles[k].pc = "loop"
    /\ cycles[k].i <= Len(SupportedCurrencies)
    /\ LET c == cycles[k]
           targetCurrency == SupportedCurrencies[c.i]
           rate == IF targetCurrency \in DOMAIN c.rates
                   THEN c.rates[targetCurrency] ELSE Zero
       IN  \E up \in BOOLEAN :
              IF up /\ ~c.expired
              THEN /\ exchange_rates' =
                        UpsertExchangeRate(exchange_rates, "USD", targetCurrency,
                                           FormatRate(rate), now)
                   /\ cycles' = [cycles EXCEPT ![k].i = @ + 1,
                                               ![k].updatedCount = @ + 1]
              ELSE /\ cycles' = [cycles EXCEPT ![k] = Returned(@, ErrUpdate)]
                   /\ UNCHANGED exchange_rates
    /\ UNCHANGED << now, alive, dataVars, httpVars >>

\* mutant: a failed upsert is passed over and the loop goes on
UpdateRateContinuing(k) ==
    /\ alive
    /\ cycles[k].pc = "loop"
    /\ cycles[k].i <= Len(SupportedCurrencies)
    /\ LET c == cycles[k]
           targetCurrency == SupportedCurrencies[c.i]
       IN  IF targetCurrency \notin DOMAIN c.rates
           THEN /\ cycles' = [cycles EXCEPT ![k].i = @ + 1]
                /\ UNCHANGED exchange_rates
           ELSE \E up \in BOOLEAN :
                   IF up /\ ~c.expired
                   THEN /\ exchange_rates' =
                             UpsertExchangeRate(exchange_rates, "USD", targetCurrency,
                                                FormatRate(c.rates[targetCurrency]), now)
                        /\ cycles' = [cycles EXCEPT ![k].i = @ + 1,
                                                    ![k].updatedCount = @ + 1]
                   ELSE /\ cycles' = [cycles EXCEPT ![k].i = @ + 1]
                        /\ UNCHANGED exchange_rates
    /\ UNCHANGED << now, alive, dataVars, httpVars >>

\* one iteration of the loop over SupportedCurrencies
UpdateRate(k) ==
    /\ alive
    /\ cycles[k].pc = "loop"
    /\ cycles[k].i <= Len(SupportedCurrencies)
    /\ LET c == cycles[k]
           targetCurrency == SupportedCurrencies[c.i]
       IN  IF targetCurrency \notin DOMAIN c.rates
           THEN /\ cycles' = [cycles EXCEPT ![k].i = @ + 1]
                /\ UNCHANGED exchange_rates
           ELSE \E up \in BOOLEAN :
                   IF up /\ ~c.expired
                   THEN /\ exchange_rates' =
                             UpsertExchangeRate(exchange_rates, "USD", targetCurrency,
                                                FormatRate(c.rates[targetCurrency]), now)
                        /\ cycles' = [cycles EXCEPT ![k].i = @ + 1,
                                                    ![k].updatedCount = @ + 1]
                   ELSE /\ cycles' = [cycles EXCEPT ![k] = Returned(@, ErrUpdate)]
                        /\ UNCHANGED exchange_rates
    /\ UNCHANGED << now, alive, dataVars, httpVars >>

\* the loop is over: log the count, return nil
FinishCycle(k) ==
    /\ alive
    /\ cycles[k].pc = "loop"
    /\ cycles[k].i > Len(SupportedCurrencies)
    /\ cycles' = [cycles EXCEPT ![k] = Returned(@, "nil")]
    /\ UNCHANGED << exchange_rates, now, alive, dataVars, httpVars >>

\* the database clock advances
Tick ==
    /\ now < MaxTime
    /\ now' = now + 1
    /\ UNCHANGED << exchange_rates, cycles, alive, dataVars, httpVars >>

(***************************************************************************)
(* HTTP handlers.  c.JSON cannot encode +Inf or NaN: encoding/json fails   *)
(* and the error handler answers 500.                                      *)
(***************************************************************************)
NoRequest == [handler |-> "none"]
NoResponse == [handler |-> "none", status |-> 0]

JSON(handler, status, body, floats) ==
    IF \A f \in floats : IsFinite(f)
    THEN [handler |-> handler, status |-> status] @@ body
    ELSE [handler |-> handler, status |-> 500, message |-> "Internal Server Error"]

\* what a request may carry as amount: nothing, no number, or a number
\* (written here by the float it parses to)
Amounts == { Zero, One, << 100, 1 >> }
AmountParams == { << "", Zero >>, << "abc", Zero >> } \cup { << "number", a >> : a \in Amounts }
CodeParams == Codes \cup {""}

\* GET /api/convert-currency
ConvertCurrencyResponse(rows, ups, amountStr, from, to) ==
    IF amountStr[1] = "" \/ from = "" \/ to = ""
    THEN JSON("ConvertCurrency", 400, [error |-> "Missing required parameters"], {})
    ELSE IF amountStr[1] = "abc"
    THEN JSON("ConvertCurrency", 400, [error |-> "Invalid amount"], {})
    ELSE LET amount == amountStr[2]
             converted == ConvertAmount(rows, ups, amount, from, to)
             rate == IF amount[1] > 0 THEN FDiv(converted.amount, amount) ELSE One
         IN  IF converted.err # "nil"
             THEN JSON("ConvertCurrency", 500, [error |-> converted.err], {})
             ELSE JSON("ConvertCurrency", 200,
                       [amount |-> amount, from |-> from, to |-> to,
                        converted_amount |-> converted.amount, rate |-> rate],
                       {amount, converted.amount, rate})

\* mutant: the endpoint stores the identity rate it was asked for
ConvertCurrencyStoring ==
    /\ alive
    /\ request = NoRequest
    /\ \E amountStr \in AmountParams, from \in CodeParams, to \in CodeParams,
          ups \in BOOLEAN \X BOOLEAN :
          /\ request' = [handler |-> "ConvertCurrency", amount |-> amountStr,
                          from |-> from, to |-> to, ups |-> ups]
          /\ response' = ConvertCurrencyResponse(exchange_rates, ups, amountStr, from, to)
          /\ log' = IF amountStr[1] = "number" /\ from # "" /\ to # ""
                    THEN ConvertAmountLog(exchange_rates, ups, from, to) ELSE {}
    /\ exchange_rates' = UpsertExchangeRate(exchange_rates, "USD", "USD", FormatRate(One), now)
    /\ UNCHANGED << now, cycles, alive, dataVars >>

ConvertCurrency ==
    /\ alive
    /\ request = NoRequest
    /\ \E amountStr \in AmountParams, from \in CodeParams, to \in CodeParams,
          ups \in BOOLEAN \X BOOLEAN :
          /\ request' = [handler |-> "ConvertCurrency", amount |-> amountStr,
                          from |-> from, to |-> to, ups |-> ups]
          /\ response' = ConvertCurrencyResponse(exchange_rates, ups, amountStr, from, to)
          /\ log' = IF amountStr[1] = "number" /\ from # "" /\ to # ""
                    THEN ConvertAmountLog(exchange_rates, ups, from, to) ELSE {}
    /\ UNCHANGED << exchange_rates, now, cycles, alive, dataVars >>

(***************************************************************************)
(* The aggregation passes.  hours and hourly_rate are DECIMAL(10,2)        *)
(* columns, counted in units of 10^-MoneyDigits; a date is a day number,   *)
(* 0 for a parameter that is not set and -1 for one that does not parse.   *)
(***************************************************************************)
MoneyDigits == 2

ParseMoney(v) == Round(Norm(v, Pow(10, MoneyDigits)))

Range(seq) == { seq[i] : i \in DOMAIN seq }

\* mutant: the user's preference is not read
UserCurrencyIgnored(currency) == "USD"

\* userCurrency := "USD"; if user.Currency.Valid { userCurrency = ... }
UserCurrency(currency) == IF currency = "NULL" THEN "USD" ELSE currency

\* clientsMap[client.ID] = client
ClientsMap(cl) ==
    [id \in { c.id : c \in Range(cl) } |-> CHOOSE c \in Range(cl) : c.id = id]

\* currenciesNeeded[client.Currency] = true
CurrenciesNeeded(cl, userCurrency) ==
    { c.currency : c \in Range(cl) } \ {userCurrency}

\* GetInvoiceTimeEntries: the time entries joined to the invoice
GetInvoiceTimeEntries(tes, ite, invoiceID) ==
    SelectSeq(tes, LAMBDA te : << invoiceID, te.id >> \in ite)

\* invoiceTotal += hours * hourlyRate, over the invoice's time entries
InvoiceTotal(entries) ==
    LET RECURSIVE Sum(_, _)
        Sum(i, acc) ==
            IF i > Len(entries) THEN acc
            ELSE Sum(i + 1, FAdd(acc, FMul(ParseMoney(entries[i].hours),
                                           ParseMoney(entries[i].hourly_rate))))
    IN  Sum(1, Zero)

\* GetDashboardStats, "Fetch conversion rates"
DashboardRates(rows, ups, cl, userCurrency) ==
    [currency \in CurrenciesNeeded(cl, userCurrency) |->
        LET converted == ConvertAmount(rows, ups, One, currency, userCurrency)
        IN  IF converted.err # "nil" THEN One ELSE converted.amount]

\* GetInvoiceStats, "Fetch conversion rates"
InvoiceStatsRates(rows, ups, cl, userCurrency) ==
    [currency \in CurrenciesNeeded(cl, userCurrency) |->
        LET converted == ConvertAmount(rows, ups, One, currency, userCurrency)
        IN  IF converted.err # "nil" THEN One ELSE converted.amount]

\* getFilteredTimeEntriesWithStats, "Fetch conversion rates"
TimeEntryRates(rows, ups, cl, userCurrency) ==
    [currency \in CurrenciesNeeded(cl, userCurrency) |->
        LET converted == ConvertAmount(rows, ups, One, currency, userCurrency)
        IN  IF converted.err # "nil" THEN One ELSE converted.amount]

\* what "Fetch conversion rates" writes to the log in GetDashboardStats and
\* in getFilteredTimeEntriesWithStats: the lines of GetExchangeRate alone
RatesLog(rows, ups, cl, userCurrency) ==
    UNION { ConvertAmountLog(rows, ups, currency, userCurrency) :
               currency \in CurrenciesNeeded(cl, userCurrency) }

\* in GetInvoiceStats: the handler adds an error line for each failed conversion
InvoiceStatsRatesLog(rows, ups, cl, userCurrency) ==
    RatesLog(rows, ups, cl, userCurrency)
        \cup { LogFailedToConvert(currency) :
                  currency \in { c \in CurrenciesNeeded(cl, userCurrency) :
                      ConvertAmount(rows, ups, One, c, userCurrency).err # "nil" } }

\* GetDashboardStats, the loop over the time entries
DashboardRevenue(tes, cl, conversionRates, userCurrency, fromDate, toDate) ==
    LET clientsMap == ClientsMap(cl)
        RECURSIVE Loop(_, _)
        Loop(i, acc) ==
            IF i > Len(tes) THEN acc
            ELSE LET entry == tes[i]
                     hours == ParseMoney(entry.hours)
                     totalHours == FAdd(acc.totalHours, hours)
                 IN  IF (fromDate # 0 /\ entry.date < fromDate)
                          \/ (toDate # 0 /\ entry.date > toDate)
                     THEN Loop(i + 1, acc)
                     ELSE IF entry.client_id \notin DOMAIN clientsMap
                     THEN Loop(i + 1, [acc EXCEPT !.totalHours = totalHours])
                     ELSE LET client == clientsMap[entry.client_id]
                              entryAmount == FMul(hours, ParseMoney(client.hourly_rate))
                              added ==
                                  IF client.currency # userCurrency
                                        /\ client.currency \in DOMAIN conversionRates
                                  THEN FMul(entryAmount, conversionRates[client.currency])
                                  ELSE entryAmount
                          IN  Loop(i + 1, [totalHours |-> totalHours,
                                           totalRevenue |-> FAdd(acc.totalRevenue, added)])
    IN  Loop(1, [totalHours |-> Zero, totalRevenue |-> Zero])

\* GetDashboardStats, the loop over the invoices; the invoices of failing
\* are those whose GetInvoiceTimeEntries query fails
DashboardInvoices(invs, tes, ite, cl, conversionRates, userCurrency, fromDate, toDate, failing) ==
    LET clientsMap == ClientsMap(cl)
        RECURSIVE Loop(_, _)
        Loop(i, acc) ==
            IF i > Len(invs) THEN acc
            ELSE LET invoice == invs[i]
                     invoiceTotal ==
                         InvoiceTotal(GetInvoiceTimeEntries(tes, ite, invoice.id))
                 IN  IF (fromDate # 0 /\ invoice.issue_date < fromDate)
                          \/ (toDate # 0 /\ invoice.issue_date > toDate)
                          \/ invoice.id \in failing
                          \/ invoice.client_id \notin DOMAIN clientsMap
                     THEN Loop(i + 1, acc)
                     ELSE LET clientCurrency == clientsMap[invoice.client_id].currency
                              convertedAmount ==
                                  IF clientCurrency # userCurrency
                                        /\ clientCurrency \in DOMAIN conversionRates
                                  THEN FMul(invoiceTotal, conversionRates[clientCurrency])
                                  ELSE invoiceTotal
                          IN  IF invoice.status \in {"sent", "overdue"}
                              THEN Loop(i + 1, [acc EXCEPT !.unpaidInvoices =
                                                    FAdd(@, convertedAmount)])
                              ELSE IF invoice.status = "paid"
                              THEN Loop(i + 1, [acc EXCEPT !.paidInvoices =
                                                    FAdd(@, convertedAmount)])
                              ELSE Loop(i + 1, acc)
    IN  Loop(1, [unpaidInvoices |-> Zero, paidInvoices |-> Zero])

\* GetDashboardStats from the cached multipliers on: the two loops and the
\* response
DashboardTotals(conversionRates, userCurrency, cl, tes, invs, ite, fromDate, toDate, failing) ==
    LET entries == DashboardRevenue(tes, cl, conversionRates, userCurrency,
                                    fromDate, toDate)
        invoiced == DashboardInvoices(invs, tes, ite, cl, conversionRates,
                                      userCurrency, fromDate, toDate, failing)
    IN  JSON("GetDashboardStats", 200,
             [total_hours |-> entries.totalHours,
              total_revenue |-> entries.totalRevenue,
              unpaid_invoices |-> invoiced.unpaidInvoices,
              paid_invoices |-> invoiced.paidInvoices],
             {entries.totalHours, entries.totalRevenue,
              invoiced.unpaidInvoices, invoiced.paidInvoices})

\* GET /api/stats/dashboard.  failAt names the query of the handler that
\* fails, "none" when all succeed.
GetDashboardStats(rows, ups, uc, cl, tes, invs, ite, fromDate, toDate, failAt, failing) ==
    LET userCurrency == UserCurrency(uc)
        conversionRates == DashboardRates(rows, ups, cl, userCurrency)
    IN  IF failAt = "user"
        THEN JSON("GetDashboardStats", 500, [error |-> "Failed to get user info"], {})
        ELSE IF fromDate < 0
        THEN JSON("GetDashboardStats", 400,
                  [error |-> "Invalid from date format. Use YYYY-MM-DD"], {})
        ELSE IF toDate < 0
        THEN JSON("GetDashboardStats", 400,
                  [error |-> "Invalid to date format. Use YYYY-MM-DD"], {})
        ELSE IF failAt = "time_entries"
        THEN JSON("GetDashboardStats", 500, [error |-> "Failed to get time entries"], {})
        ELSE IF failAt = "clients"
        THEN JSON("GetDashboardStats", 500, [error |-> "Failed to get clients"], {})
        ELSE IF failAt = "invoices"
        THEN JSON("GetDashboardStats", 500, [error |-> "Failed to get invoices"], {})
        ELSE DashboardTotals(conversionRates, userCurrency, cl, tes, invs, ite,
                             fromDate, toDate, failing)

\* a loop that applies the status filter before the totals
InvoiceStatsLoopFiltering(invs, tes, ite, cl, conversionRates, userCurrency, statusFilter, failing) ==
    LET clientsMap == ClientsMap(cl)
        RECURSIVE Loop(_, _)
        Loop(i, acc) ==
            IF i > Len(invs) THEN acc
            ELSE LET invoice == invs[i]
                     invoiceTotal ==
                         InvoiceTotal(GetInvoiceTimeEntries(tes, ite, invoice.id))
                     clientCurrency ==
                         IF invoice.client_id \in DOMAIN clientsMap
                         THEN clientsMap[invoice.client_id].currency
                         ELSE "USD"
                     convertedAmount ==
                         IF clientCurrency # userCurrency
                               /\ clientCurrency \in DOMAIN conversionRates
                         THEN FMul(invoiceTotal, conversionRates[clientCurrency])
                         ELSE invoiceTotal
                 IN  IF invoice.id \in failing
                        \/ (statusFilter # "all" /\ invoice.status # statusFilter)
                     THEN Loop(i + 1, acc)
                     ELSE Loop(i + 1,
                              [invoices |-> Append(acc.invoices,
                                               [id |-> invoice.id,
                                                client_currency |-> clientCurrency,
                                                total_amount |-> invoiceTotal]),
                               totalAmount |-> FAdd(acc.totalAmount, convertedAmount),
                               paidAmount |->
                                   IF invoice.status = "paid"
                                   THEN FAdd(acc.paidAmount, convertedAmount)
                                   ELSE acc.paidAmount,
                               unpaidAmount |->
                                   IF invoice.status \in {"sent", "overdue"}
                                   THEN FAdd(acc.unpaidAmount, convertedAmount)
                                   ELSE acc.unpaidAmount])
    IN  Loop(1, [invoices |-> << >>, totalAmount |-> Zero, paidAmount |-> Zero,
                 unpaidAmount |-> Zero])

\* GetInvoiceStats, the loop over the invoices
InvoiceStatsLoop(invs, tes, ite, cl, conversionRates, userCurrency, statusFilter, failing) ==
    LET clientsMap == ClientsMap(cl)
        RECURSIVE Loop(_, _)
        Loop(i, acc) ==
            IF i > Len(invs) THEN acc
            ELSE LET invoice == invs[i]
                     invoiceTotal ==
                         InvoiceTotal(GetInvoiceTimeEntries(tes, ite, invoice.id))
                     clientCurrency ==
                         IF invoice.client_id \in DOMAIN clientsMap
                         THEN clientsMap[invoice.client_id].currency
                         ELSE "USD"
                     convertedAmount ==
                         IF clientCurrency # userCurrency
                               /\ clientCurrency \in DOMAIN conversionRates
                         THEN FMul(invoiceTotal, conversionRates[clientCurrency])
                         ELSE invoiceTotal
                     totals ==
                         [acc EXCEPT
                            !.totalAmount = FAdd(@, convertedAmount),
                            !.paidAmount =
                                IF invoice.status = "paid"
                                THEN FAdd(@, convertedAmount) ELSE @,
                            !.unpaidAmount =
                                IF invoice.status \in {"sent", "overdue"}
                                THEN FAdd(@, convertedAmount) ELSE @]
                 IN  IF invoice.id \in failing
                     THEN Loop(i + 1, acc)
                     ELSE IF statusFilter # "all" /\ invoice.status # statusFilter
                     THEN Loop(i + 1, totals)
                     ELSE Loop(i + 1, [totals EXCEPT !.invoices =
                              Append(@, [id |-> invoice.id,
                                         client_currency |-> clientCurrency,
                                         total_amount |-> invoiceTotal])])
    IN  Loop(1, [invoices |-> << >>, totalAmount |-> Zero, paidAmount |-> Zero,
                 unpaidAmount |-> Zero])

\* GetInvoiceStats from the cached multipliers on: the loop and the response
InvoiceStatsTotals(conversionRates, userCurrency, cl, tes, invs, ite, statusFilter, failing) ==
    LET stats == InvoiceStatsLoop(invs, tes, ite, cl, conversionRates, userCurrency,
                                  statusFilter, failing)
    IN  JSON("GetInvoiceStats", 200,
             [invoices |-> stats.invoices,
              total_invoices |-> Len(stats.invoices),
              total_amount |-> stats.totalAmount,
              paid_amount |-> stats.paidAmount,
              unpaid_amount |-> stats.unpaidAmount],
             {stats.totalAmount, stats.paidAmount, stats.unpaidAmount}
                 \cup { inv.total_amount : inv \in Range(stats.invoices) })

\* GET /api/stats/invoices
GetInvoiceStats(rows, ups, uc, cl, tes, invs, ite, status, failAt, failing) ==
    LET statusFilter == IF status = "" THEN "all" ELSE status
        userCurrency == UserCurrency(uc)
        conversionRates == InvoiceStatsRates(rows, ups, cl, userCurrency)
    IN  IF failAt = "user"
        THEN JSON("GetInvoiceStats", 500, [error |-> "Failed to get user info"], {})
        ELSE IF failAt = "invoices"
        THEN JSON("GetInvoiceStats", 500, [error |-> "Failed to get invoices"], {})
        ELSE IF failAt = "clients"
        THEN JSON("GetInvoiceStats", 500, [error |-> "Failed to get clients"], {})
        ELSE InvoiceStatsTotals(conversionRates, userCurrency, cl, tes, invs, ite,
                                statusFilter, failing)

\* getFilteredTimeEntriesWithStats, the loop over the time entries
TimeEntryStatsLoop(tes, cl, conversionRates, userCurrency, startDate, endDate) ==
    LET clientsMap == ClientsMap(cl)
        RECURSIVE Loop(_, _)
        Loop(i, acc) ==
            IF i > Len(tes) THEN acc
            ELSE LET entry == tes[i]
                     hours == ParseMoney(entry.hours)
                     known == entry.client_id \in DOMAIN clientsMap
                     clientCurrency ==
                         IF known THEN clientsMap[entry.client_id].currency
                         ELSE userCurrency
                     entryAmount ==
                         FMul(hours, ParseMoney(clientsMap[entry.client_id].hourly_rate))
                     added ==
                         IF clientCurrency # userCurrency
                               /\ clientCurrency \in DOMAIN conversionRates
                         THEN FMul(entryAmount, conversionRates[clientCurrency])
                         ELSE entryAmount
                 IN  IF entry.date < startDate \/ entry.date > endDate
                     THEN Loop(i + 1, acc)
                     ELSE Loop(i + 1,
                              [entries |-> Append(acc.entries,
                                              [id |-> entry.id,
                                               client_currency |-> clientCurrency]),
                               totalHours |-> FAdd(acc.totalHours, hours),
                               totalRevenue |-> IF known
                                                THEN FAdd(acc.totalRevenue, added)
                                                ELSE acc.totalRevenue])
    IN  Loop(1, [entries |-> << >>, totalHours |-> Zero, totalRevenue |-> Zero])

\* the days the modelled entries fall on; they lie in one week and one month
Days == 1..3

\* getFilteredTimeEntriesWithStats from the cached multipliers on: the loop
\* and the response
TimeEntriesTotals(conversionRates, userCurrency, cl, tes, startDate, endDate) ==
    LET stats == TimeEntryStatsLoop(tes, cl, conversionRates, userCurrency,
                                    startDate, endDate)
    IN  JSON("GetTimeEntriesStats", 200,
             [entries |-> stats.entries,
              total_hours |-> stats.totalHours,
              total_revenue |-> stats.totalRevenue],
             {stats.totalHours, stats.totalRevenue})

\* GET /api/time-entries/stats
GetTimeEntriesStats(rows, ups, uc, cl, tes, viewMode, dateStr, failAt) ==
    LET userCurrency == UserCurrency(uc)
        startDate == IF viewMode = "daily" THEN dateStr ELSE 1
        endDate == IF viewMode = "daily" THEN dateStr ELSE 3
        conversionRates == TimeEntryRates(rows, ups, cl, userCurrency)
    IN  IF viewMode = "" \/ dateStr = 0
        THEN JSON("GetTimeEntriesStats", 400,
                  [error |-> "view_mode and date parameters are required"], {})
        ELSE IF viewMode \notin {"daily", "weekly", "monthly"}
        THEN JSON("GetTimeEntriesStats", 400,
                  [error |-> "view_mode must be daily, weekly, or monthly"], {})
        ELSE IF dateStr \notin Days
        THEN JSON("GetTimeEntriesStats", 400,
                  [error |-> "Invalid date format. Use YYYY-MM-DD"], {})
        ELSE IF failAt = "user"
        THEN JSON("GetTimeEntriesStats", 500, [error |-> "Failed to get user info"], {})
        ELSE IF failAt = "time_entries"
        THEN JSON("GetTimeEntriesStats", 500, [error |-> "Failed to get time entries"], {})
        ELSE IF failAt = "clients"
        THEN JSON("GetTimeEntriesStats", 500, [error |-> "Failed to get clients"], {})
        ELSE TimeEntriesTotals(conversionRates, userCurrency, cl, tes, startDate, endDate)

(***************************************************************************)
(* What a request meets in the database: ups, whether the rate store       *)
(* answers the first and the second lookup of a conversion; failAt, the    *)
(* query of the handler that fails; failing, the invoices whose time       *)
(* entries cannot be read.                                                 *)
(***************************************************************************)
Healthy == [ups |-> << TRUE, TRUE >>, failAt |-> "none", failing |-> {}]

Environments ==
    { [Healthy EXCEPT !.ups = u] : u \in BOOLEAN \X BOOLEAN }
        \cup { [Healthy EXCEPT !.failAt = f] :
                  f \in {"user", "time_entries", "clients", "invoices"} }
        \cup { [Healthy EXCEPT !.failing = ids] : ids \in (SUBSET {1, 2}) \ {{}} }

DashboardStats ==
    /\ alive
    /\ request = NoRequest
    /\ \E env \in Environments, fromDate \in {-1, 0, 2}, toDate \in {-1, 0, 2} :
          /\ env = Healthy \/ (fromDate = 0 /\ toDate = 0)
          /\ request' = [handler |-> "GetDashboardStats", from |-> fromDate,
                          to |-> toDate, env |-> env]
          /\ response' = GetDashboardStats(exchange_rates, env.ups, user_currency,
                             clients, time_entries, invoices, invoice_time_entries,
                             fromDate, toDate, env.failAt, env.failing)
          /\ log' = IF env.failAt = "none" /\ fromDate >= 0 /\ toDate >= 0
                    THEN RatesLog(exchange_rates, env.ups, clients,
                                  UserCurrency(user_currency))
                    ELSE {}
    /\ UNCHANGED << exchange_rates, now, cycles, alive, dataVars >>

InvoiceStats ==
    /\ alive
    /\ request = NoRequest
    /\ \E env \in Environments, status \in {"", "paid", "draft"} :
          /\ env = Healthy \/ status = ""
          /\ request' = [handler |-> "GetInvoiceStats", status |-> status,
                          env |-> env]
          /\ response' = GetInvoiceStats(exchange_rates, env.ups, user_currency,
                             clients, time_entries, invoices, invoice_time_entries,
                             status, env.failAt, env.failing)
          /\ log' = IF env.failAt \notin {"user", "invoices", "clients"}
                    THEN InvoiceStatsRatesLog(exchange_rates, env.ups, clients,
                                              UserCurrency(user_currency))
                    ELSE {}
    /\ UNCHANGED << exchange_rates, now, cycles, alive, dataVars >>

TimeEntriesStats ==
    /\ alive
    /\ request = NoRequest
    /\ \E env \in Environments, viewMode \in {"", "yearly", "daily", "monthly"},
          dateStr \in {-1, 0, 2} :
          /\ env = Healthy \/ (viewMode = "monthly" /\ dateStr = 2)
          /\ request' = [handler |-> "GetTimeEntriesStats", view_mode |-> viewMode,
                          date |-> dateStr, env |-> env]
          /\ response' = GetTimeEntriesStats(exchange_rates, env.ups, user_currency,
                             clients, time_entries, viewMode, dateStr, env.failAt)
          /\ log' = IF env.failAt \notin {"user", "time_entries", "clients"}
                          /\ viewMode \in {"daily", "weekly", "monthly"} /\ dateStr \in Days
                    THEN RatesLog(exchange_rates, env.ups, clients,
                                  UserCurrency(user_currency))
                    ELSE {}
    /\ UNCHANGED << exchange_rates, now, cycles, alive, dataVars >>

(***************************************************************************)
(* A pass followed stage by stage: "Fetch conversion rates" fills the map  *)
(* conversionRates, then the loops over the items read that map.  Between  *)
(* the two the refresher may write the store.                              *)
(***************************************************************************)
Passes == {"GetDashboardStats", "GetInvoiceStats", "GetTimeEntriesStats"}

\* the parameters of the request that is followed stage by stage
PassParams(handler) ==
    CASE handler = "GetDashboardStats" -> [from |-> 0, to |-> 0]
      [] handler = "GetInvoiceStats" -> [status |-> ""]
      [] handler = "GetTimeEntriesStats" -> [view_mode |-> "monthly", date |-> 2]

\* mutant: the loop looks the multipliers up again
LoopRatesRefetched(req, rows, cl, userCurrency) ==
    DashboardRates(rows, req.env.ups, cl, userCurrency)

\* the multipliers the loops read: the map filled before them
LoopRates(req, rows, cl, userCurrency) == req.conversionRates

FetchConversionRates ==
    /\ alive
    /\ request = NoRequest
    /\ \E handler \in Passes, ups \in BOOLEAN \X BOOLEAN :
          LET userCurrency == UserCurrency(user_currency)
              conversionRates ==
                  CASE handler = "GetDashboardStats" ->
                           DashboardRates(exchange_rates, ups, clients, userCurrency)
                    [] handler = "GetInvoiceStats" ->
                           InvoiceStatsRates(exchange_rates, ups, clients, userCurrency)
                    [] handler = "GetTimeEntriesStats" ->
                           TimeEntryRates(exchange_rates, ups, clients, userCurrency)
          IN  /\ request' = [handler |-> handler, env |-> [Healthy EXCEPT !.ups = ups],
                             conversionRates |-> conversionRates,
                             calls |-> Cardinality(CurrenciesNeeded(clients, userCurrency))]
                                @@ PassParams(handler)
              /\ log' = IF handler = "GetInvoiceStats"
                        THEN InvoiceStatsRatesLog(exchange_rates, ups, clients, userCurrency)
                        ELSE RatesLog(exchange_rates, ups, clients, userCurrency)
    /\ UNCHANGED << exchange_rates, now, cycles, alive, dataVars, response >>

AggregateTotals ==
    /\ alive
    /\ "conversionRates" \in DOMAIN request
    /\ response = NoResponse
    /\ LET userCurrency == UserCurrency(user_currency)
           conversionRates == LoopRates(request, exchange_rates, clients, userCurrency)
       IN  response' =
              CASE request.handler = "GetDashboardStats" ->
                       DashboardTotals(conversionRates, userCurrency, clients,
                                       time_entries, invoices, invoice_time_entries,
                                       0, 0, {})
                [] request.handler = "GetInvoiceStats" ->
                       InvoiceStatsTotals(conversionRates, userCurrency, clients,
                                          time_entries, invoices, invoice_time_entries,
                                          "all", {})
                [] request.handler = "GetTimeEntriesStats" ->
                       TimeEntriesTotals(conversionRates, userCurrency, clients,
                                         time_entries, 1, 3)
    /\ UNCHANGED << exchange_rates, now, cycles, alive, dataVars, request, log >>

(***************************************************************************)
(* The handlers that write the user's settings and clients.  up tells      *)
(* whether the statement of the handler succeeds.  The clients are kept    *)
(* newest first, as GetClientsByUserID returns them.                       *)
(***************************************************************************)
MaxClients == 2

\* hourly rates a request may carry, in units of 10^-MoneyDigits
HourlyRates == {1000, 4000}

\* POST /api/users/currency
UpdateCurrency ==
    /\ alive
    /\ \E currency \in CodeParams, up \in BOOLEAN :
          /\ request' = [handler |-> "UpdateCurrency", currency |-> currency]
          /\ IF currency = ""
             THEN /\ response' = JSON("UpdateCurrency", 400,
                                       [error |-> "Currency is required"], {})
                  /\ UNCHANGED user_currency
             ELSE IF ~up
             THEN /\ response' = JSON("UpdateCurrency", 500,
                                       [error |-> "Failed to update currency"], {})
                  /\ UNCHANGED user_currency
             ELSE /\ response' = JSON("UpdateCurrency", 200, [currency |-> currency], {})
                  /\ user_currency' = currency
    /\ log' = {}
    /\ UNCHANGED << exchange_rates, now, cycles, alive, clients, time_entries, invoices, invoice_time_entries >>

\* POST /api/users/complete-onboarding
CompleteOnboarding ==
    /\ alive
    /\ \E currency \in CodeParams, up \in BOOLEAN :
          /\ request' = [handler |-> "CompleteOnboarding", currency |-> currency]
          /\ IF ~up
             THEN /\ response' = JSON("CompleteOnboarding", 500,
                                       [error |-> "Failed to complete onboarding"], {})
                  /\ UNCHANGED user_currency
             ELSE /\ response' = JSON("CompleteOnboarding", 200,
                                       [currency |-> currency], {})
                  /\ user_currency' = currency
    /\ log' = {}
    /\ UNCHANGED << exchange_rates, now, cycles, alive, clients, time_entries, invoices, invoice_time_entries >>

\* POST /api/clients
CreateClient ==
    /\ alive
    /\ Len(clients) < MaxClients
    /\ \E reqCurrency \in CodeParams, hourlyRate \in HourlyRates, up \in BOOLEAN :
          LET currency == IF reqCurrency = "" THEN "USD" ELSE reqCurrency
              client == [id |-> Len(clients) + 1, hourly_rate |-> hourlyRate,
                         currency |-> currency]
          IN  /\ request' = [handler |-> "CreateClient", currency |-> reqCurrency]
              /\ IF ~up
                 THEN /\ response' = JSON("CreateClient", 500,
                                           [error |-> "Failed to create client"], {})
                      /\ UNCHANGED clients
                 ELSE /\ response' = JSON("CreateClient", 201, client, {})
                      /\ clients' = << client >> \o clients
    /\ log' = {}
    /\ UNCHANGED << exchange_rates, now, cycles, alive, user_currency, time_entries, invoices, invoice_time_entries >>

\* PUT /api/clients/:id
UpdateClient ==
    /\ alive
    /\ \E id \in 1..MaxClients, reqCurrency \in CodeParams, hourlyRate \in HourlyRates, up \in BOOLEAN :
          LET currency == IF reqCurrency = "" THEN "USD" ELSE reqCurrency
              client == [id |-> id, hourly_rate |-> hourlyRate, currency |-> currency]
          IN  /\ request' = [handler |-> "UpdateClient", id |-> id,
                             currency |-> reqCurrency]
              /\ IF ~up
                 THEN /\ response' = JSON("UpdateClient", 500,
                                           [error |-> "Failed to update client"], {})
                      /\ UNCHANGED clients
                 ELSE IF id \notin { c.id : c \in Range(clients) }
                 THEN /\ response' = JSON("UpdateClient", 404,
                                           [error |-> "Client not found"], {})
                      /\ UNCHANGED clients
                 ELSE /\ response' = JSON("UpdateClient", 200, client, {})
                      /\ clients' = [i \in DOMAIN clients |->
                                        IF clients[i].id = id THEN client ELSE clients[i]]
    /\ log' = {}
    /\ UNCHANGED << exchange_rates, now, cycles, alive, user_currency, time_entries, invoices, invoice_time_entries >>

\* the most time entries of the user
MaxEntries == 1

\* ORDER BY date DESC, created_at DESC: the rows of a set of time entries in
\* query order; the serial id follows created_at
RECURSIVE ByDateDesc(_)
ByDateDesc(rows) ==
    IF rows = {} THEN << >>
    ELSE LET first == CHOOSE r \in rows :
                         \A q \in rows :
                            \/ q.date < r.date
                            \/ (q.date = r.date /\ q.id <= r.id)
         IN  << first >> \o ByDateDesc(rows \ {first})

\* an update of a time entry that takes the rate of the client named in the
\* request whether the client changed or not
UpdateTimeEntryRate(existingEntry, reqClientID, client) == client.hourly_rate

\* UpdateTimeEntry, "Determine hourly rate": the rate of the new client if
\* the client changed, the existing rate otherwise
HourlyRateOf(existingEntry, reqClientID, client) ==
    IF existingEntry.client_id # reqClientID
    THEN client.hourly_rate
    ELSE existingEntry.hourly_rate

\* POST /api/time-entries
CreateTimeEntry ==
    /\ alive
    /\ Len(time_entries) < MaxEntries
    /\ \E clientID \in 1..(MaxClients + 1), date \in {1}, hours \in {100}, err \in {"nil", "client", "insert"} :
          /\ request' = [handler |-> "CreateTimeEntry", client_id |-> clientID]
          /\ IF err = "client"
             THEN /\ response' = JSON("CreateTimeEntry", 500,
                                       [error |-> "Failed to fetch client"], {})
                  /\ UNCHANGED time_entries
             ELSE IF clientID \notin { c.id : c \in Range(clients) }
             THEN /\ response' = JSON("CreateTimeEntry", 404,
                                       [error |-> "Client not found"], {})
                  /\ UNCHANGED time_entries
             ELSE IF err = "insert"
             THEN /\ response' = JSON("CreateTimeEntry", 500,
                                       [error |-> "Failed to create time entry"], {})
                  /\ UNCHANGED time_entries
             ELSE LET client == CHOOSE c \in Range(clients) : c.id = clientID
                      timeEntry == [id |-> Len(time_entries) + 1,
                                    client_id |-> clientID, date |-> date,
                                    hours |-> hours,
                                    hourly_rate |-> client.hourly_rate]
                  IN  /\ response' = JSON("CreateTimeEntry", 201, timeEntry, {})
                      /\ time_entries' =
                            ByDateDesc(Range(time_entries) \cup {timeEntry})
    /\ log' = {}
    /\ UNCHANGED << exchange_rates, now, cycles, alive, user_currency, clients, invoices, invoice_time_entries >>

\* PUT /api/time-entries/:id
UpdateTimeEntry ==
    /\ alive
    /\ \E id \in 1..MaxEntries, clientID \in 1..(MaxClients + 1), date \in {1}, hours \in {500}, err \in {"nil", "entry", "client", "update"} :
          /\ request' = [handler |-> "UpdateTimeEntry", id |-> id,
                          client_id |-> clientID]
          /\ IF err = "entry"
             THEN /\ response' = JSON("UpdateTimeEntry", 500,
                                       [error |-> "Failed to fetch time entry"], {})
                  /\ UNCHANGED time_entries
             ELSE IF id \notin { e.id : e \in Range(time_entries) }
             THEN /\ response' = JSON("UpdateTimeEntry", 404,
                                       [error |-> "Time entry not found"], {})
                  /\ UNCHANGED time_entries
             ELSE LET existingEntry == CHOOSE e \in Range(time_entries) : e.id = id
                      changed == existingEntry.client_id # clientID
                      known == clientID \in { c.id : c \in Range(clients) }
                      client == IF known
                                THEN CHOOSE c \in Range(clients) : c.id = clientID
                                ELSE [id |-> clientID, hourly_rate |-> 0,
                                      currency |-> ""]
                      timeEntry == [id |-> id, client_id |-> clientID,
                                    date |-> date, hours |-> hours,
                                    hourly_rate |->
                                        HourlyRateOf(existingEntry, clientID, client)]
                  IN  IF changed /\ err = "client"
                      THEN /\ response' = JSON("UpdateTimeEntry", 500,
                                                [error |-> "Failed to fetch client"], {})
                           /\ UNCHANGED time_entries
                      ELSE IF changed /\ ~known
                      THEN /\ response' = JSON("UpdateTimeEntry", 404,
                                                [error |-> "Client not found"], {})
                           /\ UNCHANGED time_entries
                      ELSE IF err = "update"
                      THEN /\ response' = JSON("UpdateTimeEntry", 500,
                                                [error |-> "Failed to update time entry"], {})
                           /\ UNCHANGED time_entries
                      ELSE /\ response' = JSON("UpdateTimeEntry", 200, timeEntry, {})
                           /\ time_entries' =
                                 ByDateDesc((Range(time_entries) \ {existingEntry})
                                               \cup {timeEntry})
    /\ log' = {}
    /\ UNCHANGED << exchange_rates, now, cycles, alive, user_currency, clients, invoices, invoice_time_entries >>

\* the most invoices of the user
MaxInvoices == 2

\* the lists of time-entry ids a request to create an invoice carries
TimeEntryIDLists ==
    { << >>, << 1 >>, << 2 >>, << 1, 2 >>, << 1, 1 >>, << 3 >>, << 1, 3 >> }

\* AddTimeEntryToInvoice: INSERT INTO invoice_time_entries.  The insert
\* fails for an id that is no time entry (foreign key) and for a pair the
\* table holds already (primary key).
AddTimeEntryToInvoice(rows, entries, invoiceID, timeEntryID) ==
    IF timeEntryID \notin { e.id : e \in Range(entries) }
          \/ << invoiceID, timeEntryID >> \in rows
    THEN [rows |-> rows, err |-> "insert"]
    ELSE [rows |-> rows \cup { << invoiceID, timeEntryID >> }, err |-> "nil"]

\* CreateInvoice, "Add time entries to invoice": the loop stops at the first
\* insert that fails and keeps the rows inserted before
RECURSIVE AddTimeEntries(_, _, _, _)
AddTimeEntries(rows, entries, invoiceID, timeEntryIDs) ==
    IF timeEntryIDs = << >> THEN [rows |-> rows, err |-> "nil"]
    ELSE LET added == AddTimeEntryToInvoice(rows, entries, invoiceID,
                                            Head(timeEntryIDs))
         IN  IF added.err # "nil" THEN added
             ELSE AddTimeEntries(added.rows, entries, invoiceID, Tail(timeEntryIDs))

\* GetAvailableTimeEntriesForClient: the user's entries of the client that
\* are on no invoice
GetAvailableTimeEntriesForClient(entries, ite, clientID) ==
    SelectSeq(entries, LAMBDA e : /\ e.client_id = clientID
                                  /\ \A row \in ite : row[2] # e.id)

\* POST /api/invoices
CreateInvoice ==
    /\ alive
    /\ Len(invoices) < MaxInvoices
    /\ \E clientID \in 1..(MaxClients + 1), status \in {"draft", "sent"}, timeEntryIDs \in TimeEntryIDLists, up \in BOOLEAN :
          LET invoice == [id |-> Len(invoices) + 1, client_id |-> clientID,
                          issue_date |-> 1, status |-> status]
              added == AddTimeEntries(invoice_time_entries, time_entries,
                                      invoice.id, timeEntryIDs)
          IN  /\ request' = [handler |-> "CreateInvoice", client_id |-> clientID,
                             time_entry_ids |-> timeEntryIDs]
              /\ IF ~up \/ clientID \notin { c.id : c \in Range(clients) }
                 THEN /\ response' = JSON("CreateInvoice", 500,
                                           [error |-> "Failed to create invoice"], {})
                      /\ UNCHANGED << invoices, invoice_time_entries >>
                 ELSE /\ invoices' = << invoice >> \o invoices
                      /\ invoice_time_entries' = added.rows
                      /\ response' =
                            IF added.err # "nil"
                            THEN JSON("CreateInvoice", 500,
                                      [error |-> "Failed to add time entries to invoice"], {})
                            ELSE JSON("CreateInvoice", 200,
                                      [id |-> invoice.id,
                                       time_entries |->
                                           { row[2] : row \in { r \in added.rows :
                                                                   r[1] = invoice.id } }],
                                      {})
    /\ log' = {}
    /\ UNCHANGED << exchange_rates, now, cycles, alive, user_currency, clients, time_entries >>

\* GET /api/invoices/available-time-entries
GetAvailableTimeEntries ==
    /\ alive
    /\ \E clientID \in 1..MaxClients, up \in BOOLEAN :
          /\ request' = [handler |-> "GetAvailableTimeEntries", client_id |-> clientID]
          /\ response' =
                IF ~up
                THEN JSON("GetAvailableTimeEntries", 500,
                          [error |-> "Failed to fetch available time entries"], {})
                ELSE JSON("GetAvailableTimeEntries", 200,
                          [entries |-> GetAvailableTimeEntriesForClient(
                                           time_entries, invoice_time_entries, clientID)],
                          {})
    /\ log' = {}
    /\ UNCHANGED << exchange_rates, now, cycles, alive, dataVars >>

(***************************************************************************)
(* Specification of the refresher.                                         *)
(***************************************************************************)
RefreshInit ==
    /\ exchange_rates = {}
    /\ now = 1
    /\ cycles = [k \in Cycles |-> Idle]
    /\ alive = TRUE
    /\ user_currency = "NULL"
    /\ clients = << >>
    /\ time_entries = << >>
    /\ invoices = << >>
    /\ invoice_time_entries = {}
    /\ request = NoRequest
    /\ response = NoResponse
    /\ log = {}

Init == RefreshInit

Next ==
    \/ \E k \in Cycles : StartCycle(k)
    \/ \E k \in Cycles : Deadline(k)
    \/ \E k \in Cycles : FetchFails(k)
    \/ \E k \in Cycles : FetchNoRates(k)
    \/ \E k \in Cycles : FetchRates(k)
    \/ \E k \in Cycles : UpdateRate(k)
    \/ \E k \in Cycles : FinishCycle(k)
    \/ Tick

Spec == Init /\ [][Next]_vars

(***************************************************************************)
(* The stores the refresher leaves behind: none, or the base row with rate *)
(* 1.0 and any rows of the other supported codes.                          *)
(***************************************************************************)
StoredRates == { FormatRate(r) : r \in {Rate092, Rate150, Zero} }

Row(target, rate, t) ==
    [base_currency |-> "USD", target_currency |-> target, rate |-> rate,
     updated_at |-> t]

Stores ==
    {{}} \cup
    { {Row("USD", FormatRate(One), 1)} \cup
      { Row(c, f[c], 1) : c \in { x \in NonBase : f[x] # -1 } } :
      f \in [NonBase -> StoredRates \cup {-1}] }

(***************************************************************************)
(* Specification of the conversion endpoint over every such store.         *)
(***************************************************************************)
ConvertInit ==
    /\ exchange_rates \in Stores
    /\ now = 1
    /\ cycles = [k \in Cycles |-> Idle]
    /\ alive = TRUE
    /\ user_currency = "NULL"
    /\ clients = << >>
    /\ time_entries = << >>
    /\ invoices = << >>
    /\ invoice_time_entries = {}
    /\ request = NoRequest
    /\ response = NoResponse
    /\ log = {}

ConvertNext == ConvertCurrency

SpecConvert == ConvertInit /\ [][ConvertNext]_vars

(***************************************************************************)
(* Specification of the aggregation passes over every such store and a     *)
(* small data set: two clients, three time entries, two invoices.          *)
(***************************************************************************)
\* the stores whose rows are of the first three supported codes
StatsStores ==
    { st \in Stores :
         \A r \in st : r.target_currency \in Range(SubSeq(AllSupportedCurrencies, 1, 3)) }

StatsInit ==
    /\ exchange_rates \in StatsStores
    /\ now = 1
    /\ cycles = [k \in Cycles |-> Idle]
    /\ alive = TRUE
    /\ user_currency \in {"NULL", "USD", "EUR"}
    /\ \E c1 \in {"USD", "EUR"}, c2 \in Codes :
          clients = << [id |-> 2, hourly_rate |-> 4000, currency |-> c2],
                       [id |-> 1, hourly_rate |-> 1000, currency |-> c1] >>
    /\ time_entries =
          << [id |-> 3, client_id |-> 1, date |-> 3, hours |-> 100, hourly_rate |-> 1000],
             [id |-> 2, client_id |-> 2, date |-> 2, hours |-> 100, hourly_rate |-> 4000],
             [id |-> 1, client_id |-> 1, date |-> 1, hours |-> 500, hourly_rate |-> 1000] >>
    /\ \E st \in { << "paid", "sent" >>, << "draft", "overdue" >> } :
          invoices =
              << [id |-> 2, client_id |-> 2, issue_date |-> 2, status |-> st[2]],
                 [id |-> 1, client_id |-> 1, issue_date |-> 1, status |-> st[1]] >>
    /\ invoice_time_entries = { << 1, 1 >>, << 2, 2 >> }
    /\ request = NoRequest
    /\ response = NoResponse
    /\ log = {}

StatsNext ==
    \/ DashboardStats
    \/ InvoiceStats
    \/ TimeEntriesStats

SpecStats == StatsInit /\ [][StatsNext]_vars

(***************************************************************************)
(* Properties of the conversion engine.                                    *)
(***************************************************************************)
Availability == BOOLEAN \X BOOLEAN

\* no request has arrived: the states that hold each store once
Unasked == request = NoRequest

\* the followed request reached ConvertAmount
Asked ==
    /\ request.handler = "ConvertCurrency"
    /\ request.amount[1] = "number" /\ request.from # "" /\ request.to # ""

Converted == Asked /\ response.status = 200
Refused == Asked /\ response.status = 500 /\ "error" \in DOMAIN response

HasRow(c) == RowsOf(exchange_rates, "USD", c) # {}
StoredRate(c) == ParseFloat((CHOOSE r \in RowsOf(exchange_rates, "USD", c) : TRUE).rate)

\* C1: ConvertAmount(amount, c, c) returns amount itself and no error, for
\* every amount and code, whatever the store holds or answers, and makes no
\* lookup of the store.
C1_Identity ==
    /\ Unasked =>
        (\A a \in Amounts, c \in Codes, ups \in Availability :
              ConvertAmount(exchange_rates, ups, a, c, c)
                  = [amount |-> a, err |-> "nil", queries |-> 0])
    /\ (Asked /\ request.from = request.to)
          => /\ response.status = 200
             /\ response.converted_amount = request.amount[2]

C1_Witness ==
    /\ Converted
    /\ request.from = Unsupported /\ request.to = Unsupported
    /\ request.ups = << FALSE, FALSE >>
    /\ response.converted_amount = << 100, 1 >>
    /\ exchange_rates = {}

\* C2: for from # to, when both lookups succeed, ConvertAmount returns
\* (amount / rate(USD,from)) * rate(USD,to) with the rates the store holds;
\* 100 EUR at USD->EUR = 0.92 and USD->USD = 1.0 is 100 / 0.92 * 1.0 USD.
C2_Formula ==
    /\ Unasked =>
        (\A a \in Amounts, from \in Codes, to \in Codes, ups \in Availability :
              LET r == ConvertAmount(exchange_rates, ups, a, from, to)
              IN  (from # to /\ r.err = "nil")
                     => /\ HasRow(from) /\ HasRow(to)
                        /\ r.amount = FMul(FDiv(a, StoredRate(from)), StoredRate(to)))
    /\ (Converted /\ request.from # request.to)
          => response.converted_amount =
                 FMul(FDiv(request.amount[2], StoredRate(request.from)),
                      StoredRate(request.to))

C2_Witness ==
    /\ Converted
    /\ request.from = "EUR" /\ request.to = "USD"
    /\ request.amount[2] = << 100, 1 >>
    /\ StoredRate("EUR") = Rate092 /\ StoredRate("USD") = One
    /\ response.converted_amount = FMul(FDiv(<< 100, 1 >>, Rate092), One)

\* the outcome of a conversion: an error, or a value
Outcome(r) == [ok |-> r.err = "nil", amount |-> r.amount]

Direct(up, a, x, y) == ConvertAmount(exchange_rates, << up, up >>, a, x, y)

ViaUSD(up, a, x, y) ==
    LET first == Direct(up, a, x, "USD")
    IN  IF first.err # "nil" THEN first ELSE Direct(up, first.amount, "USD", y)

\* C3 as stated: for every amount and every pair (x, y), on the same store,
\* ConvertAmount(a, x, y) and ConvertAmount(ConvertAmount(a, x, USD), USD, y)
\* have the same outcome, x = y and missing rows included.
C3_BridgeAllPairs ==
    \A a \in Amounts, x \in Codes, y \in Codes, up \in BOOLEAN :
        Outcome(Direct(up, a, x, y)) = Outcome(ViaUSD(up, a, x, y))

\* C3 as amended: the same, for the pairs with x # y or x = y = USD.
C3_BridgeDistinct ==
    /\ Unasked =>
        (\A a \in Amounts, x \in Codes, y \in Codes, up \in BOOLEAN :
              (x # y \/ x = "USD")
                 => Outcome(Direct(up, a, x, y)) = Outcome(ViaUSD(up, a, x, y)))
    /\ (Converted /\ request.from # request.to)
          => Outcome(ViaUSD(TRUE, request.amount[2], request.from, request.to))
                 = [ok |-> TRUE, amount |-> response.converted_amount]

C3_Witness ==
    /\ Converted
    /\ request.from \in NonBase /\ request.to \in NonBase
    /\ request.from # request.to
    /\ request.amount[2] = << 100, 1 >>
    /\ StoredRate(request.from) # StoredRate(request.to)
    /\ response.converted_amount # request.amount[2]

\* |u - v| <= v * 2^-(MantissaBits - 3)
Close(u, v) ==
    /\ IsFinite(u)
    /\ LET diff == u[1] * v[2] - v[1] * u[2]
           abs == IF diff < 0 THEN 0 - diff ELSE diff
       IN  abs * Pow(2, MantissaBits - 3) <= v[1] * u[2]

RoundTrip(a, x, y) ==
    LET there == Direct(TRUE, a, x, y)
    IN  IF there.err # "nil" THEN there ELSE Direct(TRUE, there.amount, y, x)

\* C4: for every amount and every pair (x, y) whose rows are stored,
\* converting from x to y and back on the same store gives the amount again,
\* within a small epsilon.
C4_RoundTrip ==
    \A a \in Amounts, x \in Supported, y \in Supported :
        (HasRow(x) /\ HasRow(y))
           => /\ RoundTrip(a, x, y).err = "nil"
              /\ Close(RoundTrip(a, x, y).amount, a)

\* the round trip, over the stores that hold no zero rate
C4_RoundTripPositive ==
    (\A r \in exchange_rates : r.rate > 0) => C4_RoundTrip

\* C5: for from # to, a lookup of rate(USD,to) or rate(USD,from) that finds
\* no row or fails in the database makes ConvertAmount return an error, and
\* no amount; the endpoint answers with the error.
Fails(up, c) == c # "USD" /\ (~up \/ ~HasRow(c))

C5_ErrorSurfaced ==
    /\ Unasked =>
        (\A a \in Amounts, from \in Codes, to \in Codes, ups \in Availability :
              LET r == ConvertAmount(exchange_rates, ups, a, from, to)
              IN  (from # to /\ (Fails(ups[1], to) \/ Fails(ups[2], from)))
                     => /\ r.err \in {ErrNotAvailable, ErrQuery}
                        /\ r.amount = Zero)
    /\ (Asked /\ request.from # request.to
            /\ (Fails(request.ups[1], request.to) \/ Fails(request.ups[2], request.from)))
          => /\ response.status = 500
             /\ response.error \in {ErrNotAvailable, ErrQuery}

C5_Witness ==
    /\ Refused
    /\ response.error = ErrNotAvailable
    /\ request.from = "EUR" /\ request.to = Unsupported
    /\ request.ups = << TRUE, TRUE >>
    /\ HasRow("EUR")

(***************************************************************************)
(* Properties of the aggregation passes.                                   *)
(***************************************************************************)
\* the queries of its own that each pass makes
PassQueries ==
    [GetDashboardStats |-> {"user", "time_entries", "clients", "invoices"},
     GetInvoiceStats |-> {"user", "invoices", "clients"},
     GetTimeEntriesStats |-> {"user", "time_entries", "clients"}]

WellFormed ==
    CASE request.handler = "GetDashboardStats" -> request.from >= 0 /\ request.to >= 0
      [] request.handler = "GetInvoiceStats" -> TRUE
      [] request.handler = "GetTimeEntriesStats" ->
             request.view_mode \in {"daily", "weekly", "monthly"} /\ request.date \in Days

\* the followed request is a well-formed one to a pass, and the queries of
\* the pass for the user, the clients, the entries and the invoices succeed
Aggregating ==
    /\ request.handler \in DOMAIN PassQueries
    /\ WellFormed
    /\ request.env.failAt \notin PassQueries[request.handler]

\* the reporting currency
Reporting == IF user_currency = "NULL" THEN "USD" ELSE user_currency

ClientOf(id) == CHOOSE c \in Range(clients) : c.id = id

ConversionFails(c) ==
    ConvertAmount(exchange_rates, request.env.ups, One, c, Reporting).err # "nil"

\* ConvertAmount(1.0, c, reporting), and 1.0 when that conversion fails; for
\* a pass followed stage by stage, the multiplier its first stage cached
Multiplier(c) ==
    IF "conversionRates" \in DOMAIN request THEN request.conversionRates[c]
    ELSE IF ConversionFails(c) THEN One
    ELSE ConvertAmount(exchange_rates, request.env.ups, One, c, Reporting).amount

\* what an item adds to the total
Share(item) ==
    IF item.currency = Reporting THEN item.amount
    ELSE FMul(item.amount, Multiplier(item.currency))

\* the sum of the shares, added in the order of the items
RECURSIVE SumShares(_)
SumShares(items) ==
    IF items = << >> THEN Zero
    ELSE FAdd(SumShares(SubSeq(items, 1, Len(items) - 1)), Share(items[Len(items)]))

\* a time entry as an item: hours at the client's rate, in the client's currency
Worked(te) ==
    [amount |-> FMul(ParseMoney(te.hours), ParseMoney(ClientOf(te.client_id).hourly_rate)),
     currency |-> ClientOf(te.client_id).currency]

\* an invoice as an item: its entries at their rates, in the client's currency
Billed(inv) ==
    [amount |-> InvoiceTotal(GetInvoiceTimeEntries(time_entries, invoice_time_entries,
                                                   inv.id)),
     currency |-> ClientOf(inv.client_id).currency]

Between(d, lo, hi) == (lo = 0 \/ d >= lo) /\ (hi = 0 \/ d <= hi)

WorkedItems(lo, hi) ==
    LET kept == SelectSeq(time_entries, LAMBDA te : Between(te.date, lo, hi))
    IN  [i \in DOMAIN kept |-> Worked(kept[i])]

BilledItems(statuses, lo, hi) ==
    LET kept == SelectSeq(invoices,
                    LAMBDA inv : /\ inv.status \in statuses
                                 /\ Between(inv.issue_date, lo, hi)
                                 /\ inv.id \notin request.env.failing)
    IN  [i \in DOMAIN kept |-> Billed(kept[i])]

Statuses == {"draft", "sent", "paid", "overdue"}

\* the totals a pass returns, as the sums of the shares of its items
ExpectedTotals ==
    CASE request.handler = "GetDashboardStats" ->
             [total_revenue |-> SumShares(WorkedItems(request.from, request.to)),
              unpaid_invoices |->
                  SumShares(BilledItems({"sent", "overdue"}, request.from, request.to)),
              paid_invoices |->
                  SumShares(BilledItems({"paid"}, request.from, request.to))]
      [] request.handler = "GetInvoiceStats" ->
             [total_amount |-> SumShares(BilledItems(Statuses, 0, 0)),
              unpaid_amount |-> SumShares(BilledItems({"sent", "overdue"}, 0, 0)),
              paid_amount |-> SumShares(BilledItems({"paid"}, 0, 0))]
      [] request.handler = "GetTimeEntriesStats" ->
             [total_revenue |->
                  IF request.view_mode = "daily"
                  THEN SumShares(WorkedItems(request.date, request.date))
                  ELSE SumShares(WorkedItems(0, 0))]

TotalsAre(totals) == \A f \in DOMAIN totals : response[f] = totals[f]

\* the currencies of the user's clients whose conversion fails
FailedCurrencies ==
    { c \in { cl.currency : cl \in Range(clients) } \ {Reporting} : ConversionFails(c) }

\* C6: whatever the store holds or answers, each of the three passes
\* completes with numeric totals (status 200, every total a finite number)
\* and no error, and the totals count every item of a currency whose
\* conversion failed with its raw amount (multiplier 1.0).
C6_FallbackNeverThrows ==
    Aggregating
       => /\ response.status = 200
          /\ TotalsAre(ExpectedTotals)
          /\ \A f \in DOMAIN ExpectedTotals : IsFinite(response[f])

\* the same, over the stores that hold no zero rate
C6_FallbackPositiveRates ==
    (\A r \in exchange_rates : r.rate > 0) => C6_FallbackNeverThrows

\* a pass over a store without the row of a client's currency: the fallback
C6_FallbackTaken ==
    /\ Aggregating
    /\ FailedCurrencies # {}
    /\ response.status = 200

\* C7: the totals a pass returns are the sums, over its items in order, of
\* amount for an item in the reporting currency and of amount times the
\* multiplier of its currency otherwise: ConvertAmount(1.0, currency,
\* reporting), or 1.0 when that conversion fails.  The reporting currency is
\* the user's preference, "USD" when it is unset.
C7_TotalFormula ==
    (Aggregating /\ response.status = 200) => TotalsAre(ExpectedTotals)

\* items 10 USD, 40 EUR, 50 USD, no preference stored, USD->EUR = 0.92
C7_Witness ==
    /\ Aggregating
    /\ request.handler = "GetTimeEntriesStats" /\ request.view_mode = "monthly"
    /\ user_currency = "NULL"
    /\ clients[1].currency = "EUR" /\ clients[2].currency = "USD"
    /\ HasRow("EUR") /\ StoredRate("EUR") = Rate092
    /\ request.env.ups = << TRUE, TRUE >>
    /\ response.status = 200
    /\ response.total_revenue =
          FAdd(FAdd(<< 10, 1 >>,
                    FMul(<< 40, 1 >>, FMul(FDiv(One, Rate092), One))),
               << 50, 1 >>)
    /\ response.total_revenue # << 100, 1 >>

(***************************************************************************)
(* Properties of the rate store and the refresher.                         *)
(***************************************************************************)
\* cycle k is in its loop, at a code its response carries or lacks
InLoop(k) == cycles[k].pc = "loop" /\ cycles[k].i <= Len(SupportedCurrencies)
Target(k) == SupportedCurrencies[cycles[k].i]
Carries(k, c) == c \in DOMAIN cycles[k].rates

\* the step is an upsert of cycle k
Upserts(k) ==
    /\ InLoop(k)
    /\ cycles'[k].pc = "loop"
    /\ cycles'[k].updatedCount = cycles[k].updatedCount + 1

OtherRows(rows, c) == { r \in rows : r.target_currency # c }

\* C8: an upsert of (USD, c) with rate r at time t leaves exactly one row of
\* that pair, with rate r and updated_at t, whatever row of the pair was
\* stored before, and leaves the rows of every other pair as they were.
C8_UpsertOverwrite ==
    [][\A k \in Cycles :
          Upserts(k)
             => /\ RowsOf(exchange_rates', "USD", Target(k))
                      = { [base_currency |-> "USD", target_currency |-> Target(k),
                           rate |-> FormatRate(cycles[k].rates[Target(k)]),
                           updated_at |-> now] }
                /\ OtherRows(exchange_rates', Target(k))
                      = OtherRows(exchange_rates, Target(k))]_vars

\* cycle k has made its upsert of code c
Passed(k, c) ==
    /\ cycles[k].pc = "loop"
    /\ Carries(k, c)
    /\ \E i \in 1..(cycles[k].i - 1) : SupportedCurrencies[i] = c
    /\ cycles[k].updatedCount >= cycles[k].i - 1

\* both cycles have upserted (USD, EUR), with different rates and the second
\* one later: the one row of the pair carries the later time
C8_Witness ==
    /\ Passed("startup", "EUR") /\ Passed("scheduled", "EUR")
    /\ cycles["startup"].rates["EUR"] # cycles["scheduled"].rates["EUR"]
    /\ now = 2
    /\ \E r \in RowsOf(exchange_rates, "USD", "EUR") :
          /\ r.updated_at = 2
          /\ r.rate = FormatRate(cycles["scheduled"].rates["EUR"])
          /\ r.rate # FormatRate(cycles["startup"].rates["EUR"])
    /\ Cardinality(RowsOf(exchange_rates, "USD", "EUR")) = 1

\* C9: the store holds at most one row per pair in every reachable state,
\* the two cycles interleaving their upserts in any order; once both cycles
\* have upserted a pair, its row holds the rate one of the two wrote.
C9_OneRowPerPair ==
    /\ \A r1 \in exchange_rates, r2 \in exchange_rates :
          (r1.base_currency = r2.base_currency
              /\ r1.target_currency = r2.target_currency) => r1 = r2
    /\ \A c \in Supported :
          (Passed("startup", c) /\ Passed("scheduled", c))
             => \E r \in RowsOf(exchange_rates, "USD", c), k \in Cycles :
                   r.rate = FormatRate(cycles[k].rates[c])

\* both cycles are past (USD, EUR) with different rates, and the row holds
\* the rate of the startup cycle
C9_Witness ==
    /\ Passed("startup", "EUR") /\ Passed("scheduled", "EUR")
    /\ FormatRate(cycles["startup"].rates["EUR"])
          # FormatRate(cycles["scheduled"].rates["EUR"])
    /\ \E r \in RowsOf(exchange_rates, "USD", "EUR") :
          r.rate = FormatRate(cycles["startup"].rates["EUR"])
    /\ cycles["scheduled"].i <= cycles["startup"].i

\* the step is one of cycle k, not the passing of its deadline
Steps(k) ==
    /\ cycles'[k] # cycles[k]
    /\ cycles'[k] # [cycles[k] EXCEPT !.expired = TRUE]

Present(k) == { c \in Supported : Carries(k, c) }

\* C10: a cycle whose response lacks the rate of a supported code c goes
\* on past c without an error, never changes the rows of (USD, c), and when
\* it returns nil it has upserted every supported code the response carries.
C10_PartialContainment ==
    [][\A k \in Cycles :
          (Steps(k) /\ cycles[k].pc = "loop")
             => /\ \A c \in Supported \ Present(k) :
                      RowsOf(exchange_rates', "USD", c) = RowsOf(exchange_rates, "USD", c)
                /\ (InLoop(k) /\ ~Carries(k, Target(k)))
                      => /\ cycles'[k] = [cycles[k] EXCEPT !.i = @ + 1]
                         /\ exchange_rates' = exchange_rates
                /\ (cycles'[k].pc = "returned" /\ cycles'[k].err = "nil")
                      => /\ cycles'[k].updatedCount = Cardinality(Present(k))
                         /\ \A c \in Present(k) :
                               RowsOf(exchange_rates, "USD", c) # {}]_vars

\* the scheduled cycle returned nil after upserting all but the last
\* supported code, whose row is still the one the startup cycle wrote earlier
C10_Witness ==
    /\ cycles["scheduled"].pc = "returned" /\ cycles["scheduled"].err = "nil"
    /\ cycles["scheduled"].updatedCount = Len(SupportedCurrencies) - 1
    /\ cycles["startup"].pc = "returned" /\ cycles["startup"].err = "nil"
    /\ cycles["startup"].updatedCount = Len(SupportedCurrencies)
    /\ now = 2
    /\ \E r \in RowsOf(exchange_rates, "USD", LastSupported) :
          r.updated_at = 1 /\ r.rate = FormatRate(Rate092)
    /\ \A r \in OtherRows(exchange_rates, LastSupported) :
          r.updated_at = 2 /\ r.rate = FormatRate(IF r.target_currency = "USD"
                                                  THEN One ELSE Rate150)

\* the step ends the outbound request of cycle k without rates to store
RequestFails(k) ==
    /\ cycles[k].pc = "fetching"
    /\ cycles'[k].pc \notin {"fetching", "loop"}

\* C11: when the outbound request of a cycle fails (network error, status
\* other than 200, a body that is not the expected JSON or that lacks the
\* rates mapping), the cycle ends with an error and the step leaves every
\* row of the store as it was.
C11_FetchFailureAborts ==
    [][\A k \in Cycles :
          RequestFails(k)
             => /\ cycles'[k].pc = "returned"
                /\ cycles'[k].err \in {ErrFetch, ErrStatus, ErrDecode}
                /\ exchange_rates' = exchange_rates]_vars

\* the part that holds: no such step changes the store
C11_StoreKept ==
    [][\A k \in Cycles : RequestFails(k) => exchange_rates' = exchange_rates]_vars

\* cycle k has ended in failure
Failed(k) ==
    \/ cycles[k].pc = "panicked"
    \/ cycles[k].pc = "returned" /\ cycles[k].err # "nil"

\* C12: a failing cycle is never fatal to the process: whatever the
\* provider's outcome, in the startup run and in the scheduled run, the
\* process keeps running once the cycle has failed.
C12_FailureNeverFatal ==
    \A k \in Cycles : Failed(k) => alive

\* the part that holds: a cycle that returned an error left the process running
C12_ErrorNeverFatal ==
    [][\A k \in Cycles :
          (cycles[k].pc # "returned" /\ cycles'[k].pc = "returned")
             => alive' = alive]_vars

(***************************************************************************)
(* The refresher with the progress its own code makes: a cycle that holds  *)
(* the decoded rates goes on through its loop and returns.  When, and      *)
(* whether, the provider answers is the provider's choice.                 *)
(***************************************************************************)
SpecLive ==
    /\ Spec
    /\ \A k \in Cycles : WF_vars(UpdateRate(k)) /\ WF_vars(FinishCycle(k))

\* cycle k waits for the provider and its deadline has passed
Overdue(k) == cycles[k].pc = "fetching" /\ cycles[k].expired

\* C13: every refresh run ends by its deadline: a run that still waits for
\* the provider's answer when the deadline expires is abandoned, it does not
\* go on waiting (unless the process itself has ended).
C13_DeadlineEndsRun ==
    \A k \in Cycles : Overdue(k) ~> (cycles[k].pc # "fetching" \/ ~alive)

\* the part that holds: once the rates are decoded the run ends
C13_LoopEnds ==
    \A k \in Cycles : (cycles[k].pc = "loop") ~> (cycles[k].pc # "loop" \/ ~alive)

\* the step is the return of the startup run on its expired context, in a
\* process whose daily job has not run yet: the store was empty when the run
\* started
ExpiredReturn ==
    /\ cycles["scheduled"].pc = "idle"
    /\ cycles["startup"].pc = "loop"
    /\ cycles["startup"].expired
    /\ cycles'["startup"].pc = "returned"
    /\ cycles'["startup"].err = ErrUpdate

\* C14: a run whose deadline expires, at whatever point of the cycle, leaves
\* the store as it was when the run started: the startup run of a process
\* that started on an empty store and ends on its expired context leaves the
\* store empty.
C14_ExpiredRunLeavesStore ==
    [][ExpiredReturn => exchange_rates' = {}]_vars

\* the part that holds: an expiry that precedes the first upsert leaves the
\* store as it was
C14_ExpiredBeforeUpsert ==
    [][(ExpiredReturn /\ cycles["startup"].updatedCount = 0)
          => exchange_rates' = {}]_vars

\* no run of the daily job is under way
Due == cycles["scheduled"].pc \in {"idle", "returned", "panicked"}

\* C15: the startup run happens once and the daily job runs again at each
\* scheduled time, and no failed or timed-out cycle, of the startup run or of
\* the daily job, affects the next scheduled cycle: whenever no run of the
\* daily job is under way, the next one can start.
C15_NextCycleStarts ==
    Due => ENABLED StartCycle("scheduled")

\* the part that holds: in a living process the next scheduled cycle can start
C15_NextCycleStartsAlive ==
    (alive /\ Due) => ENABLED StartCycle("scheduled")

\* the part that holds: the startup run happens once
C15_StartupOnce ==
    [][cycles["startup"].pc \notin {"idle", "fetching"}
          => cycles'["startup"].pc # "fetching"]_vars

\* C16: in every reachable state every row of the store has base currency
\* "USD" and a target currency among the 13 supported codes, also when the
\* provider's response carries a code outside them.
C16_OnlySupportedRows ==
    \A r \in exchange_rates :
        /\ r.base_currency = "USD"
        /\ r.target_currency \in Range(AllSupportedCurrencies)

\* a cycle whose response carried a code outside the list has run through
\* its whole loop and stored a row for every supported code
C16_Witness ==
    \E k \in Cycles :
        /\ cycles[k].pc = "loop"
        /\ cycles[k].i > Len(SupportedCurrencies)
        /\ Unsupported \in DOMAIN cycles[k].rates
        /\ cycles[k].updatedCount = Len(SupportedCurrencies)
        /\ \A c \in Supported : RowsOf(exchange_rates, "USD", c) # {}

(***************************************************************************)
(* The serving process on its first day: the startup run of the refresher  *)
(* side by side with the handlers, over a store that holds the rows of an  *)
(* earlier process and the data set of the passes.                         *)
(***************************************************************************)
\* the rate the earlier process left for every code but the base
StaleRate == FormatRate(<< 2, 1 >>)

StaleStore ==
    {Row("USD", FormatRate(One), 0)} \cup { Row(c, StaleRate, 0) : c \in NonBase }

ServeInit ==
    /\ exchange_rates = StaleStore
    /\ now = 1
    /\ cycles = [k \in Cycles |-> Idle]
    /\ alive = TRUE
    /\ user_currency = "EUR"
    /\ clients = << [id |-> 2, hourly_rate |-> 4000, currency |-> "EUR"],
                    [id |-> 1, hourly_rate |-> 1000, currency |-> "USD"] >>
    /\ time_entries =
          << [id |-> 3, client_id |-> 1, date |-> 3, hours |-> 100, hourly_rate |-> 1000],
             [id |-> 2, client_id |-> 2, date |-> 2, hours |-> 100, hourly_rate |-> 4000],
             [id |-> 1, client_id |-> 1, date |-> 1, hours |-> 500, hourly_rate |-> 1000] >>
    /\ invoices =
          << [id |-> 2, client_id |-> 2, issue_date |-> 2, status |-> "sent"],
             [id |-> 1, client_id |-> 1, issue_date |-> 1, status |-> "paid"] >>
    /\ invoice_time_entries = { << 1, 1 >>, << 2, 2 >> }
    /\ request = NoRequest
    /\ response = NoResponse
    /\ log = {}

ServeNext ==
    \/ StartCycle("startup")
    \/ Deadline("startup")
    \/ FetchFails("startup")
    \/ FetchNoRates("startup")
    \/ FetchRates("startup")
    \/ UpdateRate("startup")
    \/ FinishCycle("startup")
    \/ ConvertCurrency
    \/ DashboardStats
    \/ InvoiceStats
    \/ TimeEntriesStats

SpecServe == ServeInit /\ [][ServeNext]_vars

\* the step is a handler's: a request is answered
Handles == request' # request

\* the step is an iteration of the loop of cycle k
Iterates(k) ==
    /\ cycles[k].pc = "loop"
    /\ cycles'[k].pc = "loop"
    /\ cycles'[k].i = cycles[k].i + 1

\* C17: only the refresher writes the store: the conversion endpoint and the
\* three passes, with GetExchangeRate and ConvertAmount inside them, leave
\* every row as it was, whether they answer 200 or an error and whether the
\* pair they ask for has a row or not; a step that changes the store is an
\* iteration of a cycle's loop.
C17_OnlyRefresherWrites ==
    [][/\ Handles => exchange_rates' = exchange_rates
       /\ exchange_rates' # exchange_rates => \E k \in Cycles : Iterates(k)]_vars

\* the endpoint has answered an error for a pair without row while the
\* startup run has replaced rows of the store
C17_Witness ==
    /\ request # NoRequest
    /\ request.handler = "ConvertCurrency"
    /\ response.status = 500
    /\ response.error = ErrNotAvailable
    /\ exchange_rates # StaleStore

\* cycle k has completed successfully
Completed(k) == cycles[k].pc = "returned" /\ cycles[k].err = "nil"

\* C18: once a refresh cycle has completed successfully the store holds the
\* row (USD, USD) with rate 1.0, whether or not the provider's response
\* lists the base currency.
C18_BaseRowAfterSuccess ==
    (\E k \in Cycles : Completed(k))
       => \E r \in exchange_rates :
             /\ r.base_currency = "USD"
             /\ r.target_currency = "USD"
             /\ r.rate = FormatRate(One)

\* the startup run has completed on a response that lists every supported
\* code but the base, before any run of the daily job
C18_Witness ==
    /\ Completed("startup")
    /\ cycles["startup"].updatedCount = Len(SupportedCurrencies)
    /\ cycles["scheduled"].pc = "idle"
    /\ RowsOf(exchange_rates, "USD", "USD") # {}

\* the startup run is under way
InProgress == cycles["startup"].pc \in {"fetching", "loop"}

\* the step answers a read of the pair (USD, c): the conversion of 1 USD
ReadsPair(c) ==
    /\ request = NoRequest
    /\ request' = [handler |-> "ConvertCurrency", amount |-> << "number", One >>,
                   from |-> "USD", to |-> c, ups |-> << TRUE, TRUE >>]

\* the run under way has upserted the pair (USD, c)
Written(c) ==
    /\ cycles["startup"].pc = "loop"
    /\ c \in DOMAIN cycles["startup"].rates
    /\ \E i \in 1..(cycles["startup"].i - 1) : SupportedCurrencies[i] = c

\* C19: a read of a pair that runs while a refresh cycle is under way does
\* not wait for the cycle and returns the rate the cycle has written for
\* that pair, or, when the cycle has not written the pair yet, the rate
\* stored before the cycle: never another value.
C19_ReadOldOrNew ==
    [][InProgress =>
          /\ (request = NoRequest) => ENABLED ConvertCurrency
          /\ \A c \in NonBase :
                ReadsPair(c) =>
                   /\ response'.status = 200
                   /\ response'.converted_amount =
                         IF Written(c)
                         THEN ParseFloat(FormatRate(cycles["startup"].rates[c]))
                         ELSE ParseFloat(StaleRate)]_vars

\* a read made during the run was answered with the new rate of the first
\* pair while the row of the last pair still holds the rate stored before
C19_Witness ==
    /\ InProgress
    /\ request # NoRequest
    /\ request.handler = "ConvertCurrency"
    /\ request.from = "USD" /\ request.to = SupportedCurrencies[2]
    /\ request.amount = << "number", One >>
    /\ response.status = 200
    /\ response.converted_amount # ParseFloat(StaleRate)
    /\ LastSupported \in DOMAIN cycles["startup"].rates
    /\ cycles["startup"].i <= Len(SupportedCurrencies)
    /\ \E r \in RowsOf(exchange_rates, "USD", LastSupported) : r.rate = StaleRate

\* what a lookup of the pair (base, target) must report
LookupError(rows, up, base, target) ==
    IF ~up THEN ErrQuery
    ELSE IF RowsOf(rows, base, target) = {} THEN ErrNotAvailable
    ELSE "nil"

\* C20: a lookup reports a missing row and a failure of the storage as two
\* different errors: a failure of the storage is never reported as "rate not
\* available" and a missing row is never reported as a failure of the
\* storage; the endpoint hands the same error on to its caller.
C20_TwoErrors ==
    /\ ErrQuery # ErrNotAvailable
    /\ Unasked =>
        (\A base \in Codes, target \in Codes, up \in BOOLEAN :
              base # target
                 => GetExchangeRate(exchange_rates, up, base, target).err
                       = LookupError(exchange_rates, up, base, target))
    /\ (Asked /\ request.from # request.to /\ request.to # "USD")
          => LET e == LookupError(exchange_rates, request.ups[1], "USD", request.to)
             IN  e # "nil" => (response.status = 500 /\ response.error = e)

\* the storage failed on the lookup of a pair that has no row, and the
\* endpoint reported the failure of the storage
C20_Witness ==
    /\ Refused
    /\ response.error = ErrQuery
    /\ request.ups[1] = FALSE
    /\ request.to # "USD"
    /\ request.from # request.to
    /\ ~HasRow(request.to)

(***************************************************************************)
(* Properties of the passes: log, cache, agreement, sub-totals.            *)
(***************************************************************************)
\* the log holds a line about the failed conversion of currency c
Logged(c) ==
    \E e \in log : e \in {LogFailedToConvert(c), LogNotFound(c), LogNotFound(Reporting)}

\* the error of the failed conversion of currency c
ConversionError(c) ==
    ConvertAmount(exchange_rates, request.env.ups, One, c, Reporting).err

\* C21: whenever a pass (dashboard, invoice statistics, time-entry
\* statistics) applies the 1:1 fallback to a currency, for a missing row or
\* for a storage error, the pass writes a log line about it and answers the
\* user without error.
C21_FallbackLogged ==
    (Aggregating /\ FailedCurrencies # {})
       => /\ \A c \in FailedCurrencies : Logged(c)
          /\ response.status = 200

\* the part that holds: a fallback for a missing row is logged by every pass
C21_MissingRowLogged ==
    Aggregating
       => \A c \in FailedCurrencies : ConversionError(c) = ErrNotAvailable => Logged(c)

\* the part that holds: the invoice statistics log every fallback
C21_InvoiceStatsLogged ==
    (Aggregating /\ request.handler = "GetInvoiceStats")
       => \A c \in FailedCurrencies : LogFailedToConvert(c) \in log

\* the other passes write no line when the storage fails
C21_StorageErrorSilent ==
    (Aggregating /\ request.handler # "GetInvoiceStats")
       => \A c \in FailedCurrencies : ConversionError(c) = ErrQuery => ~Logged(c)

\* a pass that took the fallback for a storage error and wrote no line
C21_Witness ==
    /\ Aggregating
    /\ request.handler = "GetDashboardStats"
    /\ response.status = 200
    /\ \E c \in FailedCurrencies : ConversionError(c) = ErrQuery /\ ~Logged(c)

(***************************************************************************)
(* The startup run of the refresher side by side with a pass followed      *)
(* stage by stage, for a user who reports in the last supported code and   *)
(* has clients in two other currencies.                                    *)
(***************************************************************************)
PassInit ==
    /\ exchange_rates = StaleStore
    /\ now = 1
    /\ cycles = [k \in Cycles |-> Idle]
    /\ alive = TRUE
    /\ user_currency = LastSupported
    /\ clients = << [id |-> 2, hourly_rate |-> 4000, currency |-> "EUR"],
                    [id |-> 1, hourly_rate |-> 1000, currency |-> "USD"] >>
    /\ time_entries =
          << [id |-> 3, client_id |-> 1, date |-> 3, hours |-> 100, hourly_rate |-> 1000],
             [id |-> 2, client_id |-> 2, date |-> 2, hours |-> 100, hourly_rate |-> 4000],
             [id |-> 1, client_id |-> 1, date |-> 1, hours |-> 500, hourly_rate |-> 1000] >>
    /\ invoices =
          << [id |-> 2, client_id |-> 2, issue_date |-> 2, status |-> "sent"],
             [id |-> 1, client_id |-> 1, issue_date |-> 1, status |-> "paid"] >>
    /\ invoice_time_entries = { << 1, 1 >>, << 2, 2 >> }
    /\ request = NoRequest
    /\ response = NoResponse
    /\ log = {}

PassNext ==
    \/ StartCycle("startup")
    \/ Deadline("startup")
    \/ FetchFails("startup")
    \/ FetchNoRates("startup")
    \/ FetchRates("startup")
    \/ UpdateRate("startup")
    \/ FinishCycle("startup")
    \/ FetchConversionRates
    \/ AggregateTotals

SpecPass == PassInit /\ [][PassNext]_vars

\* the pass followed stage by stage has answered
Staged == "conversionRates" \in DOMAIN request /\ response # NoResponse

\* the multiplier a pass that started now would get for currency c
FreshMultiplier(c) ==
    LET converted == ConvertAmount(exchange_rates, request.env.ups, One, c, Reporting)
    IN  IF converted.err # "nil" THEN One ELSE converted.amount

\* C22: within one pass the conversion engine is called once for each
\* distinct client currency other than the reporting currency, and every
\* item of a currency is scaled by the one multiplier cached for it, also
\* when the refresher has changed the stored rates since: the totals the
\* pass answers are the sums of the items' shares at the cached multipliers.
C22_CachedMultiplier ==
    Staged
       => /\ request.calls
                = Cardinality({ c.currency : c \in Range(clients) } \ {Reporting})
          /\ DOMAIN request.conversionRates
                = { c.currency : c \in Range(clients) } \ {Reporting}
          /\ response.status = 200 => TotalsAre(ExpectedTotals)

\* a pass has answered with totals after the refresher changed the rate of a
\* currency it had cached; two of its items are in that currency
C22_Witness ==
    /\ Staged
    /\ response.status = 200
    /\ request.calls = 2
    /\ FreshMultiplier("USD") # request.conversionRates["USD"]
    /\ Cardinality({ i \in DOMAIN time_entries :
                        ClientOf(time_entries[i].client_id).currency = "USD" }) = 2

(***************************************************************************)
(* The passes over a data set in which an invoice may name a client that   *)
(* is not the user's: CreateInvoice stores the client id of the request    *)
(* unchecked.                                                              *)
(***************************************************************************)
AgreeInit ==
    /\ exchange_rates \in StatsStores
    /\ now = 1
    /\ cycles = [k \in Cycles |-> Idle]
    /\ alive = TRUE
    /\ user_currency \in {"NULL", "EUR"}
    /\ clients = << [id |-> 2, hourly_rate |-> 4000, currency |-> "EUR"],
                    [id |-> 1, hourly_rate |-> 1000, currency |-> "USD"] >>
    /\ time_entries =
          << [id |-> 3, client_id |-> 1, date |-> 3, hours |-> 100, hourly_rate |-> 1000],
             [id |-> 2, client_id |-> 2, date |-> 2, hours |-> 100, hourly_rate |-> 4000],
             [id |-> 1, client_id |-> 1, date |-> 1, hours |-> 500, hourly_rate |-> 1000] >>
    /\ \E client \in {1, 3} :
          invoices =
              << [id |-> 3, client_id |-> client, issue_date |-> 3, status |-> "paid"],
                 [id |-> 2, client_id |-> 2, issue_date |-> 2, status |-> "sent"],
                 [id |-> 1, client_id |-> 1, issue_date |-> 1, status |-> "paid"] >>
    /\ invoice_time_entries = { << 1, 1 >>, << 2, 2 >>, << 3, 3 >> }
    /\ request = NoRequest
    /\ response = NoResponse
    /\ log = {}

SpecAgree == AgreeInit /\ [][StatsNext]_vars

\* what the invoice statistics answer to the same user over the same data
\* and the same store
SameInvoiceStats ==
    GetInvoiceStats(exchange_rates, request.env.ups, user_currency, clients,
                    time_entries, invoices, invoice_time_entries, "",
                    request.env.failAt, request.env.failing)

\* what the dashboard answers to the same user over the same data and store
SameDashboard ==
    GetDashboardStats(exchange_rates, request.env.ups, user_currency, clients,
                      time_entries, invoices, invoice_time_entries, 0, 0,
                      request.env.failAt, request.env.failing)

\* the dashboard has answered for all dates
DashboardAnswered ==
    /\ request.handler = "GetDashboardStats"
    /\ request.from = 0 /\ request.to = 0
    /\ response.status = 200

\* the time-entry statistics have answered for the month of all the entries
MonthAnswered ==
    /\ request.handler = "GetTimeEntriesStats"
    /\ request.view_mode = "monthly" /\ request.date \in Days
    /\ response.status = 200

\* every invoice names one of the user's clients
OwnClients ==
    \A inv \in Range(invoices) : inv.client_id \in { c.id : c \in Range(clients) }

\* C23: the three passes apply the same rule: for the same user, store and
\* items, an invoice whose client is not among the user's clients included,
\* the paid and unpaid totals of the dashboard are those of the invoice
\* statistics, and the revenue of the time-entry statistics is that of the
\* dashboard.
C23_PassesAgree ==
    /\ (DashboardAnswered /\ SameInvoiceStats.status = 200)
          => /\ response.paid_invoices = SameInvoiceStats.paid_amount
             /\ response.unpaid_invoices = SameInvoiceStats.unpaid_amount
    /\ (MonthAnswered /\ SameDashboard.status = 200)
          => response.total_revenue = SameDashboard.total_revenue

\* the part that holds: the passes agree when every invoice names one of
\* the user's clients
C23_AgreeOwnClients ==
    OwnClients => C23_PassesAgree

\* the dashboard has answered over data with an invoice of a client that is
\* not the user's
C23_Witness ==
    /\ DashboardAnswered
    /\ ~OwnClients
    /\ SameInvoiceStats.status = 200

(***************************************************************************)
(* Specification of the entry points that select a currency, from a new    *)
(* user without clients on.                                                *)
(***************************************************************************)
SettingsInit ==
    /\ exchange_rates = {}
    /\ now = 1
    /\ cycles = [k \in Cycles |-> Idle]
    /\ alive = TRUE
    /\ user_currency = "NULL"
    /\ clients = << >>
    /\ time_entries = << >>
    /\ invoices = << >>
    /\ invoice_time_entries = {}
    /\ request = NoRequest
    /\ response = NoResponse
    /\ log = {}

SettingsNext ==
    \/ UpdateCurrency
    \/ CompleteOnboarding
    \/ CreateClient
    \/ UpdateClient

SpecSettings == SettingsInit /\ [][SettingsNext]_vars

\* the followed request selects a currency
Selects ==
    request.handler \in {"UpdateCurrency", "CompleteOnboarding", "CreateClient", "UpdateClient"}

\* C24: every entry point that selects a currency (currency preference,
\* onboarding, client creation, client update) answers a code outside the
\* 13 supported ones with an error, and neither the user nor a client ever
\* carries such a code.
C24_OnlySupportedCodes ==
    /\ user_currency \in {"NULL"} \cup Range(AllSupportedCurrencies)
    /\ \A c \in Range(clients) : c.currency \in Range(AllSupportedCurrencies)
    /\ (Selects /\ request.currency = Unsupported) => response.status >= 400

\* the part that holds: the update of the preference refuses an empty code
C24_EmptyPreferenceRefused ==
    (Selects /\ request.handler = "UpdateCurrency" /\ request.currency = "")
       => response.status = 400

\* a client was created with a code outside the list and the answer was 201
C24_Witness ==
    /\ Selects
    /\ request.handler = "CreateClient"
    /\ request.currency = Unsupported
    /\ response.status = 201
    /\ \E c \in Range(clients) : c.currency = Unsupported

(***************************************************************************)
(* The passes over three invoices of one client in the reporting currency, *)
(* of 33.00, 32.00 and 1.00: sums that the floating point does not hold    *)
(* exactly.                                                                *)
(***************************************************************************)
SubTotalsInit ==
    /\ exchange_rates \in StatsStores
    /\ now = 1
    /\ cycles = [k \in Cycles |-> Idle]
    /\ alive = TRUE
    /\ user_currency \in {"NULL", "USD"}
    /\ clients = << [id |-> 1, hourly_rate |-> 100, currency |-> "USD"] >>
    /\ time_entries =
          << [id |-> 3, client_id |-> 1, date |-> 3, hours |-> 100, hourly_rate |-> 100],
             [id |-> 2, client_id |-> 1, date |-> 2, hours |-> 100, hourly_rate |-> 3200],
             [id |-> 1, client_id |-> 1, date |-> 1, hours |-> 100, hourly_rate |-> 3300] >>
    /\ \E st \in { << "sent", "paid", "sent" >>, << "draft", "overdue", "paid" >> } :
          invoices =
              << [id |-> 1, client_id |-> 1, issue_date |-> 1, status |-> st[1]],
                 [id |-> 2, client_id |-> 1, issue_date |-> 2, status |-> st[2]],
                 [id |-> 3, client_id |-> 1, issue_date |-> 3, status |-> st[3]] >>
    /\ invoice_time_entries = { << 1, 1 >>, << 2, 2 >>, << 3, 3 >> }
    /\ request = NoRequest
    /\ response = NoResponse
    /\ log = {}

SpecSubTotals == SubTotalsInit /\ [][StatsNext]_vars

\* u <= v, for finite numbers
LessEq(u, v) == u[1] * v[2] <= v[1] * u[2]

\* the invoice statistics have answered with totals
InvoiceStatsAnswered ==
    /\ Aggregating
    /\ request.handler = "GetInvoiceStats"
    /\ response.status = 200

\* the dashboard has answered with totals
DashboardTotalsAnswered ==
    /\ Aggregating
    /\ request.handler = "GetDashboardStats"
    /\ response.status = 200

\* each invoice adds its converted amount to the total and to the sub-total
\* of its status, and to no other
StatusRouting ==
    /\ InvoiceStatsAnswered
          => /\ response.total_amount = SumShares(BilledItems(Statuses, 0, 0))
             /\ response.paid_amount = SumShares(BilledItems({"paid"}, 0, 0))
             /\ response.unpaid_amount = SumShares(BilledItems({"sent", "overdue"}, 0, 0))
    /\ DashboardTotalsAnswered
          => /\ response.paid_invoices
                   = SumShares(BilledItems({"paid"}, request.from, request.to))
             /\ response.unpaid_invoices
                   = SumShares(BilledItems({"sent", "overdue"}, request.from, request.to))

\* C25: in the invoice passes each invoice adds the same converted amount to
\* the overall total and to the sub-total of its status: paid to the paid
\* sub-total, sent and overdue to the unpaid sub-total, any other status to
\* neither; hence paid + unpaid does not exceed the total of the invoice
\* statistics.
C25_StatusSubTotals ==
    /\ StatusRouting
    /\ InvoiceStatsAnswered
          => LessEq(FAdd(response.paid_amount, response.unpaid_amount),
                    response.total_amount)

\* the part that holds: the routing by status, and each sub-total alone
\* does not exceed the total
C25_EachSubTotal ==
    /\ StatusRouting
    /\ InvoiceStatsAnswered
          => /\ LessEq(response.paid_amount, response.total_amount)
             /\ LessEq(response.unpaid_amount, response.total_amount)

\* the invoice statistics have answered over a draft invoice, an overdue
\* one and a paid one: the draft is in the total alone
C25_Witness ==
    /\ InvoiceStatsAnswered
    /\ \E i \in DOMAIN invoices : invoices[i].status = "draft"
    /\ response.paid_amount # Zero
    /\ response.unpaid_amount # Zero
    /\ ~LessEq(response.total_amount, FAdd(response.paid_amount, response.unpaid_amount))

\* what GetInvoiceStats answers to the followed request with another status
\* filter, over the same data and store
InvoiceStatsWith(status) == GetInvoiceStats(exchange_rates, request.env.ups, user_currency, clients, time_entries, invoices, invoice_time_entries, status, request.env.failAt, request.env.failing)

\* the status of the invoice of that id
StatusOf(id) == (CHOOSE inv \in Range(invoices) : inv.id = id).status

\* the entries of a list of invoices that a status filter keeps
Listed(list, status) ==
    SelectSeq(list, LAMBDA r : status \in {"", "all"} \/ StatusOf(r.id) = status)

\* C26: GetInvoiceStats computes TotalAmount, PaidAmount and UnpaidAmount over
\* all the invoices whatever the status filter: two requests over the same
\* data with different filters get the same three amounts; only the list of
\* invoices and TotalInvoices depend on the filter.
C26_FilterIndependent ==
    InvoiceStatsAnswered
       => \A status \in {"", "all", "paid", "sent", "draft"} :
             LET other == InvoiceStatsWith(status)
             IN  /\ other.status = 200
                 /\ other.total_amount = response.total_amount
                 /\ other.paid_amount = response.paid_amount
                 /\ other.unpaid_amount = response.unpaid_amount
                 /\ other.invoices = Listed(InvoiceStatsWith("").invoices, status)
                 /\ other.total_invoices = Len(other.invoices)

\* a request for the paid invoices has been answered with a list of one
\* invoice and a total that holds the unpaid one too
C26_Witness ==
    /\ InvoiceStatsAnswered
    /\ request.status = "paid"
    /\ response.total_invoices = 1
    /\ Len(invoices) = 2
    /\ response.unpaid_amount # Zero
    /\ response.total_amount # response.paid_amount

(***************************************************************************)
(* The time entries of a user with two clients: entries are created and    *)
(* updated while the clients are updated.                                  *)
(***************************************************************************)
EntriesInit ==
    /\ exchange_rates = StaleStore
    /\ now = 1
    /\ cycles = [k \in Cycles |-> Idle]
    /\ alive = TRUE
    /\ user_currency = "USD"
    /\ clients = << [id |-> 2, hourly_rate |-> 4000, currency |-> "USD"],
                    [id |-> 1, hourly_rate |-> 1000, currency |-> "USD"] >>
    /\ time_entries = << >>
    /\ invoices = << >>
    /\ invoice_time_entries = {}
    /\ request = NoRequest
    /\ response = NoResponse
    /\ log = {}

\* the updates of a client that leave its currency USD
UpdateClientRate == UpdateClient /\ request'.currency = "USD"

EntriesNext ==
    \/ UpdateClientRate
    \/ CreateTimeEntry
    \/ UpdateTimeEntry

SpecEntries == EntriesInit /\ [][EntriesNext]_vars

\* the time entry of that id, in the table given
EntryOf(entries, id) == CHOOSE e \in Range(entries) : e.id = id

\* the ids of the time entries
EntryIds(entries) == { e.id : e \in Range(entries) }

\* the hourly rate of that client now
RateNow(clientID) == (CHOOSE c \in Range(clients) : c.id = clientID).hourly_rate

\* C27: the hourly rate stored in a time entry is the client's rate at the
\* moment the entry was created; no update of a client and no update of the
\* entry that keeps its client changes it; only an update that changes the
\* entry's client replaces it, by the current rate of the new client.
C27_RateSnapshot ==
    [][ /\ \A id \in EntryIds(time_entries') \ EntryIds(time_entries) :
              EntryOf(time_entries', id).hourly_rate
                  = RateNow(EntryOf(time_entries', id).client_id)
        /\ \A id \in EntryIds(time_entries) :
              /\ id \in EntryIds(time_entries')
              /\ IF EntryOf(time_entries', id).client_id = EntryOf(time_entries, id).client_id
                 THEN EntryOf(time_entries', id).hourly_rate
                          = EntryOf(time_entries, id).hourly_rate
                 ELSE /\ request'.handler = "UpdateTimeEntry"
                      /\ EntryOf(time_entries', id).hourly_rate
                            = RateNow(EntryOf(time_entries', id).client_id) ]_vars

\* an update has just rewritten an entry and kept its client, and the
\* entry's rate is not the client's rate of now
C27_Witness ==
    /\ request.handler = "UpdateTimeEntry"
    /\ response.status = 200
    /\ response.hourly_rate # RateNow(response.client_id)
    /\ response.hours = 500

(***************************************************************************)
(* Properties of the refresher: a failed upsert, the sign of the rates.    *)
(***************************************************************************)
\* C28: when an upsert fails for a currency, the cycle returns an error at
\* once: it upserts none of the supported currencies later in the list, and
\* the rows it upserted before keep their new rates, the cycle is not
\* rolled back.
C28_FailedUpsertStops ==
    [][\A k \in Cycles :
          /\ (Steps(k) /\ InLoop(k) /\ Carries(k, Target(k)))
                => \/ /\ Upserts(k)
                      /\ cycles'[k].i = cycles[k].i + 1
                   \/ /\ cycles'[k].pc = "returned"
                      /\ cycles'[k].err = ErrUpdate
                      /\ exchange_rates' = exchange_rates
          /\ (Steps(k) /\ cycles[k].pc = "returned")
                => /\ cycles'[k].pc = "fetching"
                   /\ exchange_rates' = exchange_rates]_vars

\* the startup cycle, alone, has returned the error of a failed upsert: the
\* rows of the first codes carry the new rate, the last supported code has
\* no row
C28_Witness ==
    /\ cycles["scheduled"] = Idle
    /\ cycles["startup"].pc = "returned"
    /\ cycles["startup"].err = ErrUpdate
    /\ \E r \in RowsOf(exchange_rates, "USD", SupportedCurrencies[2]) :
          r.rate = FormatRate(Rate092)
    /\ RowsOf(exchange_rates, "USD", "USD") # {}
    /\ RowsOf(exchange_rates, "USD", LastSupported) = {}

\* the multiplier a pass obtains for a client currency c with USD as the
\* reporting currency, when the store answers
MultiplierToUSD(c) == ConvertAmount(exchange_rates, << TRUE, TRUE >>, One, c, "USD")

\* C29: every rate in the rate store is strictly positive in every
\* reachable state, whatever the provider returns, so ConvertAmount between
\* two different codes never divides by a zero source rate and every
\* multiplier an aggregation pass obtains is a finite number.
C29_StoredRatesPositive ==
    /\ \A r \in exchange_rates : r.rate > 0
    /\ \A c \in NonBase :
          MultiplierToUSD(c).err = "nil" => IsFinite(MultiplierToUSD(c).amount)

\* the store holds a row of rate zero, and the multiplier from its currency
\* is not a number a response can carry
C29_Witness ==
    /\ \E r \in exchange_rates : r.rate = 0 /\ r.target_currency \in NonBase
    /\ \E c \in NonBase :
          MultiplierToUSD(c).err = "nil" /\ ~IsFinite(MultiplierToUSD(c).amount)

(***************************************************************************)
(* The invoices of a user with two clients and a time entry on each.       *)
(***************************************************************************)
InvoicesInit ==
    /\ exchange_rates = StaleStore
    /\ now = 1
    /\ cycles = [k \in Cycles |-> Idle]
    /\ alive = TRUE
    /\ user_currency = "USD"
    /\ clients = << [id |-> 2, hourly_rate |-> 4000, currency |-> "USD"],
                    [id |-> 1, hourly_rate |-> 1000, currency |-> "USD"] >>
    /\ time_entries =
          << [id |-> 2, client_id |-> 2, date |-> 2, hours |-> 100, hourly_rate |-> 4000],
             [id |-> 1, client_id |-> 1, date |-> 1, hours |-> 100, hourly_rate |-> 1000] >>
    /\ invoices = << >>
    /\ invoice_time_entries = {}
    /\ request = NoRequest
    /\ response = NoResponse
    /\ log = {}

InvoicesNext ==
    \/ CreateInvoice
    \/ GetAvailableTimeEntries

SpecInvoices == InvoicesInit /\ [][InvoicesNext]_vars

\* the invoices a time entry is attached to
InvoicesOf(timeEntryID) ==
    { row[1] : row \in { r \in invoice_time_entries : r[2] = timeEntryID } }

\* the client of the invoice of that id
InvoiceClient(id) == (CHOOSE inv \in Range(invoices) : inv.id = id).client_id

\* C30: after any sequence of invoice creations a time entry is attached to
\* at most one invoice, and an attached entry is one of the user's entries
\* of the invoice's client: CreateInvoice attaches only entries that are on
\* no other invoice, as GetAvailableTimeEntries lists them.
C30_AttachedOnce ==
    \A e \in Range(time_entries) :
       /\ Cardinality(InvoicesOf(e.id)) <= 1
       /\ \A inv \in InvoicesOf(e.id) : InvoiceClient(inv) = e.client_id

\* the part that holds: a pair is stored once, on an invoice and an entry
\* that exist
C30_PairsOfRows ==
    \A row \in invoice_time_entries :
       /\ row[1] \in { inv.id : inv \in Range(invoices) }
       /\ row[2] \in { e.id : e \in Range(time_entries) }

\* the second invoice was created with answer 200 on a time entry that the
\* first invoice holds already
C30_Witness ==
    /\ request.handler = "CreateInvoice"
    /\ response.status = 200
    /\ \E e \in Range(time_entries) : InvoicesOf(e.id) = {1, 2}

====
